---- MODULE Spec2Model ----
(***************************************************************************)
(* Blob rasterizer of components/layout_2020/blob_rasterizer.rs:           *)
(*   - the command buffer codec (BlobData, BlobDataIterator),              *)
(*   - the registry of blob commands behind one Mutex                      *)
(*     (ServoBlobImageHandler::add / update / delete),                     *)
(*   - the rasterizer's lookup and decode loop (rasterize_blob).           *)
(*                                                                         *)
(* Memory is modelled in cells.  One cell is one scalar field of a struct  *)
(* as it lies in the byte buffer: the header is one cell (its usize        *)
(* length), an encoded BlobImageCommand is seven cells (discriminant,      *)
(* Vec pointer, Vec length, bounds.min.x, bounds.min.y, bounds.max.x,      *)
(* bounds.max.y).  A cell is <<v>> when it holds the value v and <<>> when *)
(* its bytes were never initialised (the payload of a FillRect).  The      *)
(* point list of a DrawPolygon lives on the heap; the buffer only holds    *)
(* the pointer to it.                                                      *)
(***************************************************************************)
EXTENDS Integers, Sequences, FiniteSets, TLC

VARIABLES
    heap,       \* allocations of Vec<LayoutPoint>: address -> [live, pts]
    blob,       \* BlobData.0 of the buffer under construction (cells)
    phase,      \* "none" | "building" | "appending" | "taken" | "panicked"
    cmds,       \* history: the commands the buffer was built from
    ret,        \* history: <<>> or <<index returned by the last new_entry>>
    prev,       \* history: decode of the buffer before the last new_entry
    iter,       \* <<>> or <<BlobDataIterator>> : [data, current_pos]
    yielded,    \* history: the commands next() has returned so far
    itDone,     \* history: next() has returned None
    maxRead,    \* history: highest cell index the iterator has read
    entering,   \* <<>> or <<the new_entry call that is between its two writes>>
    replaced,   \* history: <<>> or <<the update_entry call that was made last>>
    readers,    \* per reader of one shared buffer: <<>> or <<its iterator and
                \* what the iterator has yielded>>
    blob_commands,  \* the HashMap behind the Mutex: key -> <<>> or <<BlobCommand>>
    lock,       \* the Mutex: <<>> when free, <<t>> when thread t holds the guard
    poisoned,   \* the Mutex is poisoned: a thread panicked holding the guard
    last,       \* history: the handler call that was made last
    pc,         \* where each thread is in the call it is making
    local,      \* the locals of the call each thread is making
    committed,  \* history: key -> the entry the last committed call left
    acquired,   \* history: the update calls of the two-update runs, in the
                \* order in which they took the guard
    requests,   \* the batch handed to rasterize: a sequence of BlobImageParams
    enable_multithreading,  \* the flag of the rasterizer that runs the batch
    slots,      \* per request of the batch: how far its rasterize_blob is
    call,       \* the rasterize call: "none", "running"
    outcomes,   \* history: how the rasterize calls made so far ended
    arcs,       \* the Arc<Mutex<HashMap>> allocations, by pointer
    handles,    \* the handlers and rasterizers made so far
    toggled,    \* history: <<>> or <<the last enable_multithreading call>>
    ran,        \* history: <<>> or <<the last rasterize call through a handle>>
    wrote,      \* history: <<>> or <<the last add / delete through a handle>>
    request,    \* <<>> or <<the BlobImageParams that rasterize_blob was called with>>
    pixmap,     \* <<>> or <<the Pixmap of that call>>: width, height, painted pixels
    drawn,      \* history: what process_blob was called with and what it painted
    result,     \* <<>> or <<how that call ended>>
    source_fill,    \* history: the fill rule of the geometry the producer encoded
    diagnostic, \* history: <<>> or <<what the debug output of that call did>>
    buffers,    \* the Arc<BlobImageData> allocations, by pointer: bytes, strong
    held        \* history: the Arcs the producer kept, with the bytes they
                \* had when it handed them over

codecVars == <<blob, phase, cmds, ret, prev, iter, yielded, itDone, maxRead,
               entering, replaced, readers>>

threadVars == <<lock, poisoned, pc, local, committed, acquired>>

batchVars == <<requests, enable_multithreading, slots, call, outcomes>>

handleVars == <<arcs, handles, toggled, ran, wrote>>

paintVars == <<request, pixmap, drawn, result, source_fill, diagnostic>>

ownerVars == <<buffers, held>>

vars == <<heap, blob, phase, cmds, ret, prev, iter, yielded, itDone, maxRead,
          entering, replaced, readers,
          blob_commands, lock, poisoned, last, pc, local, committed, acquired,
          requests, enable_multithreading, slots, call, outcomes,
          arcs, handles, toggled, ran, wrote,
          request, pixmap, drawn, result, source_fill, diagnostic,
          buffers, held>>

----------------------------------------------------------------------------
(* Bounds of the model *)

\* longest command sequence a buffer is built from
MaxCmds == 2
\* number of Vec<LayoutPoint> allocations the producer makes
MaxHeap == 2
\* longest batch of requests handed to rasterize
MaxBatch == 2
\* most handlers and rasterizers made
MaxHandles == 3

----------------------------------------------------------------------------
(* Geometry: euclid Box2D over integer coordinates *)

Box2D(x0, y0, x1, y1) == [min |-> <<x0, y0>>, max |-> <<x1, y1>>]

Max2(a, b) == IF a >= b THEN a ELSE b
Min2(a, b) == IF a <= b THEN a ELSE b

RectA == Box2D(0, 0, 2, 2)
RectB == Box2D(1, 1, 3, 3)
RectC == Box2D(3, 3, 5, 5)
Rects == {RectA, RectB, RectC}

----------------------------------------------------------------------------
(* Draw commands *)

\* What a command means: its kind, its points and its bounds.
FillRectCmd(b) == [kind |-> "FillRect", points |-> <<>>, bounds |-> b]
DrawPolygonCmd(pts, b) == [kind |-> "DrawPolygon", points |-> pts, bounds |-> b]

Triangle == <<<<0, 0>>, <<2, 0>>, <<1, 2>>>>

Commands ==
    {FillRectCmd(RectA), FillRectCmd(RectB),
     DrawPolygonCmd(<<>>, RectA),
     DrawPolygonCmd(<<<<1, 1>>>>, RectB),
     DrawPolygonCmd(Triangle, RectB)}

\* size_of::<BlobDataHeader>() and size_of::<BlobImageCommand>(), in cells
SizeOfHeader == 1
SizeOfCommand == 7

\* discriminant of BlobImageCommandKind
TagFillRect == 0
TagDrawPolygon == 1

Cell(v) == <<v>>
UninitCell == <<>>

\* A BlobImageCommand as the Rust value it is: the enum discriminant, the
\* Vec's pointer and length (uninitialised bytes for FillRect), the bounds.
CommandValue(tag, ptr, len, bounds) ==
    [tag |-> tag, ptr |-> ptr, len |-> len, bounds |-> bounds]

\* The producer builds a command: DrawPolygon(ManuallyDrop::new(points))
\* allocates the point list; FillRect has no payload.
MakeCommand(h, c) ==
    IF c.kind = "FillRect"
    THEN [heap |-> h,
          value |-> CommandValue(TagFillRect, UninitCell, UninitCell, c.bounds)]
    ELSE [heap |-> Append(h, [live |-> TRUE, pts |-> c.points]),
          value |-> CommandValue(TagDrawPolygon, Cell(Len(h) + 1),
                                 Cell(Len(c.points)), c.bounds)]

\* Dropping a BlobImageCommand whose Vec is not wrapped in ManuallyDrop
\* frees the point list.
DropCommandFreeing(h, v) ==
    IF v.tag = TagDrawPolygon
    THEN [h EXCEPT ![v.ptr[1]] = [live |-> FALSE, pts |-> <<>>]]
    ELSE h

\* Dropping a BlobImageCommand: the Vec is ManuallyDrop, nothing is freed.
DropCommand(h, v) == h

\* What a command value denotes on heap h.  Reading through a pointer to a
\* freed allocation is a dangling read.
View(h, v) ==
    IF v.tag = TagFillRect
    THEN FillRectCmd(v.bounds)
    ELSE IF v.ptr[1] \in 1..Len(h) /\ h[v.ptr[1]].live
              /\ v.len[1] <= Len(h[v.ptr[1]].pts)
         THEN DrawPolygonCmd(SubSeq(h[v.ptr[1]].pts, 1, v.len[1]), v.bounds)
         ELSE [kind |-> "Dangling", points |-> <<>>, bounds |-> v.bounds]

Views(h, vs) == [i \in 1..Len(vs) |-> View(h, vs[i])]

----------------------------------------------------------------------------
(* convert_to_bytes / convert_from_bytes *)

\* convert_to_bytes::<BlobDataHeader>
HeaderToBytes(header) == <<Cell(header.length)>>

\* convert_to_bytes::<BlobImageCommand>: the struct's bytes as they lie in
\* memory; the Vec's pointer is copied, not the points.
CommandToBytes(v) ==
    <<Cell(v.tag), v.ptr, v.len,
      Cell(v.bounds.min[1]), Cell(v.bounds.min[2]),
      Cell(v.bounds.max[1]), Cell(v.bounds.max[2])>>

\* the assert! of convert_from_bytes
FromBytesFits(size, x) == size <= Len(x)

\* convert_from_bytes::<BlobDataHeader>, given the assert holds
HeaderFromBytes(x) == [length |-> x[1][1]]

\* convert_from_bytes::<BlobImageCommand>, given the assert holds
CommandFromBytes(x) ==
    CommandValue(x[1][1], x[2], x[3],
                 Box2D(x[4][1], x[5][1], x[6][1], x[7][1]))

----------------------------------------------------------------------------
(* BlobData *)

\* self.0[..header.len()].copy_from_slice(header)
write_header(self, header) ==
    HeaderToBytes(header) \o SubSeq(self, SizeOfHeader + 1, Len(self))

\* BlobData::new and BlobData::new_with_capacity: a header of length 0
BlobDataNew ==
    write_header([i \in 1..SizeOfHeader |-> Cell(0)], [length |-> 0])

\* new_entry that rewrites the header before it grows the storage
new_entry_header_first(self, data) ==
    write_header(self, [length |-> HeaderFromBytes(self).length + 1])

\* BlobData::new_entry, lines 78-83: the buffer between the two writes,
\* after self.0.extend_from_slice(&data) and before write_header
new_entry_extended(self, data) == self \o CommandToBytes(data)

\* new_entry that reports the new length instead of the old one
new_entry_off_by_one(self, data) ==
    LET header == HeaderFromBytes(self)
    IN [self |-> write_header(self \o CommandToBytes(data),
                              [length |-> header.length + 1]),
        ret |-> header.length + 1]

\* BlobData::new_entry: the buffer afterwards and the index returned
new_entry(self, data) ==
    LET header == HeaderFromBytes(self)
        new_header == [length |-> header.length + 1]
    IN [self |-> write_header(self \o CommandToBytes(data), new_header),
        ret |-> header.length]

\* an entry offset that leaves out the header
EntryOffsetWithoutHeader(index) == index * SizeOfCommand

\* offset of entry index in update_entry
EntryOffset(index) == SizeOfHeader + (index * SizeOfCommand)

\* the slice self.0[offset..offset + size] of update_entry exists
update_entry_in_range(self, index) ==
    EntryOffset(index) + SizeOfCommand <= Len(self)

\* BlobData::update_entry, given the slice exists
update_entry(self, index, data) ==
    LET offset == EntryOffset(index)
    IN SubSeq(self, 1, offset) \o CommandToBytes(data)
           \o SubSeq(self, offset + SizeOfCommand + 1, Len(self))

----------------------------------------------------------------------------
(* BlobDataIterator *)

\* from_raw that starts behind the first entry
from_raw_behind_first(buffer) == [current_pos |-> 1, data |-> buffer]

\* BlobDataIterator::from_raw
from_raw(buffer) == [current_pos |-> 0, data |-> buffer]

\* the body of next() once a command is to be read: slice is
\* &self.data[offset..], which convert_from_bytes asserts to be long enough
next_read(it, offset, slice) ==
    IF FromBytesFits(SizeOfCommand, slice)
    THEN [panic |-> FALSE,
          item |-> <<CommandFromBytes(slice)>>,
          it |-> [it EXCEPT !.current_pos = it.current_pos + 1],
          read |-> offset + SizeOfCommand]
    ELSE [panic |-> TRUE, item |-> <<>>, it |-> it, read |-> SizeOfHeader]

\* the slice &self.data[offset..] exists
SliceFrom(data, offset) == offset <= Len(data)

\* next() whose bound check lets current_pos = header.length through
next_reads_past_count(it) ==
    IF ~FromBytesFits(SizeOfHeader, it.data)
    THEN [panic |-> TRUE, item |-> <<>>, it |-> it, read |-> 0]
    ELSE IF it.current_pos <= HeaderFromBytes(it.data).length
    THEN IF SliceFrom(it.data, SizeOfHeader + SizeOfCommand * it.current_pos)
         THEN next_read(it, SizeOfHeader + SizeOfCommand * it.current_pos,
                        SubSeq(it.data,
                               SizeOfHeader + SizeOfCommand * it.current_pos + 1,
                               Len(it.data)))
         ELSE [panic |-> TRUE, item |-> <<>>, it |-> it, read |-> SizeOfHeader]
    ELSE [panic |-> FALSE, item |-> <<>>, it |-> it, read |-> SizeOfHeader]

\* BlobDataIterator::next: whether it panics (the assert of
\* convert_from_bytes, or the slice &self.data[offset..]), the item it
\* returns (<<>> for None), the iterator afterwards, and the highest cell
\* index it read.
next(it) ==
    IF ~FromBytesFits(SizeOfHeader, it.data)
    THEN [panic |-> TRUE, item |-> <<>>, it |-> it, read |-> 0]
    ELSE IF it.current_pos < HeaderFromBytes(it.data).length
    THEN IF SliceFrom(it.data, SizeOfHeader + SizeOfCommand * it.current_pos)
         THEN next_read(it, SizeOfHeader + SizeOfCommand * it.current_pos,
                        SubSeq(it.data,
                               SizeOfHeader + SizeOfCommand * it.current_pos + 1,
                               Len(it.data)))
         ELSE [panic |-> TRUE, item |-> <<>>, it |-> it, read |-> SizeOfHeader]
    ELSE [panic |-> FALSE, item |-> <<>>, it |-> it, read |-> SizeOfHeader]

RECURSIVE CollectFrom(_, _)
\* one turn of `for command in iterator`, r being what next() returned
CollectStep(r, acc) ==
    IF r.item = <<>>
    THEN [panic |-> r.panic, items |-> acc]
    ELSE CollectFrom(r.it, acc \o r.item)

\* `for command in iterator`: the items the iterator yields from its
\* position on, behind those in acc, and whether the loop panicked
CollectFrom(it, acc) == CollectStep(next(it), acc)

Collect(it) == CollectFrom(it, <<>>)

\* The commands a byte buffer decodes to, as a fresh iterator yields them.
Decode(buffer) == Collect(from_raw(buffer))

----------------------------------------------------------------------------
(* euclid Box2D operations used by update *)

\* Box2D::intersection_unchecked
intersection_unchecked(a, b) ==
    Box2D(Max2(a.min[1], b.min[1]), Max2(a.min[2], b.min[2]),
          Min2(a.max[1], b.max[1]), Min2(a.max[2], b.max[2]))

\* Box2D::is_empty
is_empty(b) == ~(b.max[1] > b.min[1] /\ b.max[2] > b.min[2])

\* contains_box that compares the corners of an empty box too
contains_box_of_corners(a, other) ==
    (a.min[1] <= other.min[1]) /\ (other.max[1] <= a.max[1])
        /\ (a.min[2] <= other.min[2]) /\ (other.max[2] <= a.max[2])

\* Box2D::contains_box
contains_box(a, other) ==
    is_empty(other)
        \/ ((a.min[1] <= other.min[1]) /\ (other.max[1] <= a.max[1])
            /\ (a.min[2] <= other.min[2]) /\ (other.max[2] <= a.max[2]))

\* i32::MAX and i32::MIN
I32Max == 2147483647
I32Min == (0 - I32Max) - 1

\* BlobDirtyRect
DirtyAll == [kind |-> "All", rect |-> Box2D(0, 0, 0, 0)]
DirtyPartial(d) == [kind |-> "Partial", rect |-> d]
DirtyRects == {DirtyAll} \cup {DirtyPartial(d) : d \in Rects}

\* a match that takes All for the non-negative quadrant
DirtyToRectFromZero(dirty_rect) ==
    IF dirty_rect.kind = "All"
    THEN Box2D(0, 0, I32Max, I32Max)
    ELSE dirty_rect.rect

\* the match on dirty_rect at the head of update
DirtyToRect(dirty_rect) ==
    IF dirty_rect.kind = "All"
    THEN Box2D(I32Min, I32Min, I32Max, I32Max)
    ELSE dirty_rect.rect

----------------------------------------------------------------------------
(* The registry: HashMap<BlobImageKey, BlobCommand> *)

Keys == {"k1", "k2"}
TileSizes == {16, 32}

BlobCommand(data, visible_rect, tile_size) ==
    [data |-> data, visible_rect |-> visible_rect, tile_size |-> tile_size]

\* What the producer has built before it calls the handler: one FillRect
\* and one three-point DrawPolygon, whose points are on the heap.
MadeFill == MakeCommand(<<>>, FillRectCmd(RectA))
MadePolygon == MakeCommand(MadeFill.heap, DrawPolygonCmd(Triangle, RectB))
ProducerHeap == MadePolygon.heap
ProducerValues == {MadeFill.value, MadePolygon.value}

\* A Vec moves: one allocation is in at most one command of a buffer.
OwnedOnce(vs) ==
    \A i, j \in 1..Len(vs) :
        (i # j /\ vs[i].tag = TagDrawPolygon) => vs[i] # vs[j]

RECURSIVE EncodeAll(_, _)
\* BlobData::new() followed by new_entry for each value, then take()
EncodeAll(self, vs) ==
    IF vs = <<>> THEN self
    ELSE EncodeAll(new_entry(self, Head(vs)).self, Tail(vs))

\* the buffers the producer hands to add and update, of at most n commands
BuffersUpTo(n) ==
    {EncodeAll(BlobDataNew, vs) :
        vs \in {s \in UNION {[1..m -> ProducerValues] : m \in 0..n} : OwnedOnce(s)}}

\* the buffers handed to the handler's calls
InputBuffers == BuffersUpTo(MaxCmds)

\* HashMap::insert that keeps an entry that is already there
insert_if_absent(map, key, command) ==
    IF map[key] = <<>> THEN [map EXCEPT ![key] = <<command>>] ELSE map

\* HashMap::insert
insert(map, key, command) == [map EXCEPT ![key] = <<command>>]

\* delete panics: never, the Option that remove returns is dropped
remove_panics(map, key) == FALSE

\* HashMap::clear in the place of remove
remove_all(map, key) == [k \in DOMAIN map |-> <<>>]

\* HashMap::remove
remove(map, key) == [map EXCEPT ![key] = <<>>]

\* a lookup that makes a default entry for a key that is not there
get_mut_or_default(map, key) ==
    IF map[key] = <<>>
    THEN <<BlobCommand(BlobDataNew, Box2D(0, 0, 0, 0), 16)>>
    ELSE map[key]

\* HashMap::get_mut: <<>> for None, <<command>> for Some(command)
get_mut(map, key) == map[key]

RECURSIVE RebuildLoopPerCommand(_, _, _, _, _)
\* the loop of update with the test made on each command's own bounds
RebuildLoopPerCommand(acc, items, dirty, preserved_rect, h) ==
    IF items = <<>> THEN [new_blob_data |-> acc, heap |-> h]
    ELSE RebuildLoopPerCommand(
             IF contains_box(dirty, intersection_unchecked(Head(items).bounds,
                                                           preserved_rect))
             THEN new_entry(acc, Head(items)).self ELSE acc,
             Tail(items), dirty, preserved_rect, DropCommand(h, Head(items)))

RECURSIVE RebuildLoop(_, _, _, _, _)
\* the for loop of update over the decoded commands: each one is moved
\* into new_entry when dirty_rect.contains_box(&preserved_rect), and
\* dropped otherwise
RebuildLoop(acc, items, dirty, preserved_rect, h) ==
    IF items = <<>> THEN [new_blob_data |-> acc, heap |-> h]
    ELSE RebuildLoop(IF contains_box(dirty, preserved_rect)
                     THEN new_entry(acc, Head(items)).self ELSE acc,
                     Tail(items), dirty, preserved_rect,
                     DropCommand(h, Head(items)))

\* what the loop of update leaves, decoded being the new data's commands
RebuildResult(decoded, loop) ==
    [panic |-> decoded.panic,
     new_blob_data |-> loop.new_blob_data,
     heap |-> loop.heap]

\* a loop that moves every command into new_entry without the test
RebuildDecodedUntested(h, decoded, dirty, preserved_rect) ==
    RebuildResult(decoded,
                  RebuildLoop(BlobDataNew, decoded.items, preserved_rect,
                              preserved_rect, h))

\* the loop of update over what the new data decodes to
RebuildDecoded(h, decoded, dirty, preserved_rect) ==
    RebuildResult(decoded,
                  RebuildLoop(BlobDataNew, decoded.items, dirty,
                              preserved_rect, h))

\* the body of update for a command that was found: the rebuilt buffer
\* (and whether decoding the new data panicked)
update_rebuild(h, command, data, visible_rect, dirty_rect) ==
    RebuildDecoded(h, Decode(data), DirtyToRect(dirty_rect),
                   intersection_unchecked(command.visible_rect, visible_rect))

\* command.data = Arc::new(new_blob_data.0)
store_data(command, new_blob_data) == [command EXCEPT !.data = new_blob_data]

\* command.visible_rect = *visible_rect
store_visible_rect(command, visible_rect) ==
    [command EXCEPT !.visible_rect = visible_rect]

\* update that stores the rebuilt buffer and forgets the visible rect
update_command_keeps_rect(command, new_blob_data, visible_rect) ==
    store_data(command, new_blob_data)

\* the two stores that end update
update_command(command, new_blob_data, visible_rect) ==
    store_visible_rect(store_data(command, new_blob_data), visible_rect)

----------------------------------------------------------------------------
(* The handler's calls, each as one step, made from one thread *)

\* history of a call: what was called with which arguments, whether it
\* panicked, and the map as it was before the call
Call(op, key, data, visible_rect, tile_size, dirty_rect, panicked) ==
    [op |-> op, key |-> key, data |-> data, visible_rect |-> visible_rect,
     tile_size |-> tile_size, dirty_rect |-> dirty_rect,
     panicked |-> panicked, before |-> blob_commands]

NoCall ==
    [op |-> "none", key |-> "k1", data |-> <<>>, visible_rect |-> RectA,
     tile_size |-> 0, dirty_rect |-> DirtyAll, panicked |-> FALSE,
     before |-> [k \in Keys |-> <<>>]]

\* no batch is being rasterized
BatchIdle ==
    /\ requests = <<>>
    /\ enable_multithreading = TRUE
    /\ slots = <<>>
    /\ call = "none"
    /\ outcomes = <<>>

\* no rasterize_blob call is followed pixel by pixel
PaintIdle ==
    /\ request = <<>>
    /\ pixmap = <<>>
    /\ drawn = <<>>
    /\ result = <<>>
    /\ source_fill = "Nonzero"
    /\ diagnostic = <<>>

\* the buffers are values: their allocations are not told apart
OwnersIdle ==
    /\ buffers = <<>>
    /\ held = {}

\* the handles are not told apart
HandlesIdle ==
    /\ arcs = <<>>
    /\ handles = <<>>
    /\ toggled = <<>>
    /\ ran = <<>>
    /\ wrote = <<>>

\* no thread is in a call and nobody holds the Mutex
ThreadsIdle ==
    /\ lock = <<>>
    /\ poisoned = FALSE
    /\ pc = <<>>
    /\ local = <<>>
    /\ committed = <<>>
    /\ acquired = <<>>
    /\ BatchIdle
    /\ HandlesIdle
    /\ PaintIdle
    /\ OwnersIdle

\* the registry part of a state in which only the codec runs
RegistryIdle ==
    /\ blob_commands = [k \in Keys |-> <<>>]
    /\ last = NoCall
    /\ ThreadsIdle

\* the codec part of a state in which only the registry runs
CodecIdle ==
    /\ blob = <<>>
    /\ phase = "none"
    /\ cmds = <<>>
    /\ ret = <<>>
    /\ prev = <<>>
    /\ iter = <<>>
    /\ yielded = <<>>
    /\ itDone = FALSE
    /\ maxRead = 0
    /\ entering = <<>>
    /\ replaced = <<>>
    /\ readers = <<>>

\* ServoBlobImageHandler::new() and the producer's buffers
InitHandler ==
    /\ heap = ProducerHeap
    /\ blob_commands = [k \in Keys |-> <<>>]
    /\ last = NoCall
    /\ ThreadsIdle
    /\ CodecIdle

\* ServoBlobImageHandler::add
add ==
    /\ last.op = "none"
    /\ lock = <<>> /\ ~poisoned
    /\ \E key \in Keys, data \in InputBuffers,
          visible_rect \in Rects, tile_size \in TileSizes :
        /\ blob_commands' =
              insert(blob_commands, key, BlobCommand(data, visible_rect, tile_size))
        /\ last' = Call("add", key, data, visible_rect, tile_size, DirtyAll, FALSE)
        /\ UNCHANGED <<heap, codecVars, threadVars, batchVars, handleVars,
                       paintVars, ownerVars>>

\* ServoBlobImageHandler::update
update ==
    /\ last.op = "none"
    /\ lock = <<>> /\ ~poisoned
    /\ \E key \in Keys, data \in InputBuffers,
          visible_rect \in Rects, dirty_rect \in DirtyRects :
        /\ IF get_mut(blob_commands, key) = <<>>
           THEN /\ blob_commands' = blob_commands
                /\ heap' = heap
                /\ last' = Call("update", key, data, visible_rect, 0,
                                dirty_rect, FALSE)
           ELSE \E command \in {get_mut(blob_commands, key)[1]} :
                \E r \in {update_rebuild(heap, command, data,
                                          visible_rect, dirty_rect)} :
                   /\ blob_commands' =
                         IF r.panic THEN blob_commands
                         ELSE [blob_commands EXCEPT ![key] =
                                  <<update_command(command, r.new_blob_data,
                                                   visible_rect)>>]
                   /\ heap' = r.heap
                   /\ last' = Call("update", key, data, visible_rect, 0,
                                   dirty_rect, r.panic)
        /\ UNCHANGED <<codecVars, threadVars, batchVars, handleVars, paintVars, ownerVars>>

\* ServoBlobImageHandler::delete
delete ==
    /\ last.op = "none"
    /\ lock = <<>> /\ ~poisoned
    /\ \E key \in Keys :
        /\ blob_commands' = remove(blob_commands, key)
        /\ last' = Call("delete", key, <<>>, RectA, 0, DirtyAll,
                        remove_panics(blob_commands, key))
        /\ UNCHANGED <<heap, codecVars, threadVars, batchVars, handleVars,
                       paintVars, ownerVars>>

\* the call returns to the producer; its history is dropped
HandlerReturn ==
    /\ last.op # "none"
    /\ last' = NoCall
    /\ UNCHANGED <<heap, blob_commands, codecVars, threadVars,
                   batchVars, handleVars, paintVars, ownerVars>>

NextHandler ==
    \/ add
    \/ update
    \/ delete
    \/ HandlerReturn

SpecHandler == InitHandler /\ [][NextHandler]_vars

----------------------------------------------------------------------------
(* update over the whole range of i32 coordinates *)

\* coordinates of a DeviceIntRect: the ends of the i32 range and values
\* between them
WideXs == {I32Min, 0 - 1, 1, I32Max}
WideYs == {I32Min, 0, I32Max}

\* the visible rects and dirty rects: any extent on the x axis, also none,
\* and some extent on the y axis
WideRects ==
    {Box2D(q[1], q[2], q[3], q[4]) :
        q \in {p \in WideXs \X WideYs \X WideXs \X WideYs :
                  p[1] <= p[3] /\ p[2] < p[4]}}

WideDirtyRects == {DirtyAll} \cup {DirtyPartial(d) : d \in WideRects}

\* the buffers handed to update: one command, and two
WideBuffers ==
    {EncodeAll(BlobDataNew, <<MadeFill.value>>),
     EncodeAll(BlobDataNew, <<MadeFill.value, MadePolygon.value>>)}

\* add was called for k1 with some visible rect
InitWide ==
    /\ heap = ProducerHeap
    /\ \E visible_rect \in WideRects :
          blob_commands =
              insert([k \in Keys |-> <<>>], "k1",
                     BlobCommand(EncodeAll(BlobDataNew, <<MadeFill.value>>),
                                 visible_rect, 16))
    /\ last = NoCall
    /\ ThreadsIdle
    /\ CodecIdle

\* ServoBlobImageHandler::update, called for k1
UpdateWide ==
    /\ last.op = "none"
    /\ lock = <<>> /\ ~poisoned
    /\ \E key \in {"k1"}, data \in WideBuffers,
          visible_rect \in WideRects, dirty_rect \in WideDirtyRects :
        /\ IF get_mut(blob_commands, key) = <<>>
           THEN /\ blob_commands' = blob_commands
                /\ heap' = heap
                /\ last' = Call("update", key, data, visible_rect, 0,
                                dirty_rect, FALSE)
           ELSE \E command \in {get_mut(blob_commands, key)[1]} :
                \E r \in {update_rebuild(heap, command, data,
                                          visible_rect, dirty_rect)} :
                   /\ blob_commands' =
                         IF r.panic THEN blob_commands
                         ELSE [blob_commands EXCEPT ![key] =
                                  <<update_command(command, r.new_blob_data,
                                                   visible_rect)>>]
                   /\ heap' = r.heap
                   /\ last' = Call("update", key, data, visible_rect, 0,
                                   dirty_rect, r.panic)
        /\ UNCHANGED <<codecVars, threadVars, batchVars, handleVars, paintVars, ownerVars>>

NextWide ==
    \/ UpdateWide
    \/ HandlerReturn

SpecWide == InitWide /\ [][NextWide]_vars

----------------------------------------------------------------------------
(* The buffers as allocations: who holds which Arc<BlobImageData> *)

\* how many Arc<BlobImageData> the runs allocate at most
MaxArcs == 3

\* the buffers the producer hands over in these runs
OwnedBuffers == BuffersUpTo(1)

\* Arc::new(bytes): a new allocation with one owner
DataNew(bs, bytes) ==
    [buffers |-> Append(bs, [bytes |-> bytes, strong |-> 1]),
     ptr |-> Len(bs) + 1]

\* Arc::clone: one more owner of the same allocation
DataClone(bs, p) == [bs EXCEPT ![p].strong = @ + 1]

\* drop of an Arc: one owner less, and the last owner frees the bytes
DataDrop(bs, p) ==
    IF bs[p].strong = 1
    THEN [bs EXCEPT ![p] = [bytes |-> <<>>, strong |-> 0]]
    ELSE [bs EXCEPT ![p].strong = @ - 1]

\* the Arc the producer passes by value: it either moves its only Arc into
\* the call or passes a clone and keeps its own
HandOver(bs, bytes, keep) ==
    LET made == DataNew(bs, bytes) IN
    [buffers |-> IF keep THEN DataClone(made.buffers, made.ptr)
                 ELSE made.buffers,
     ptr |-> made.ptr]

\* what the producer holds after the call, with the bytes it handed over
Kept(ptr, bytes, keep) ==
    IF keep THEN held \cup {[ptr |-> ptr, bytes |-> bytes]} ELSE held

\* HashMap::insert of an entry: the entry that was there is dropped
\* with its Arc
DropDisplaced(bs, map, key) ==
    IF map[key] = <<>> THEN bs ELSE DataDrop(bs, map[key][1].data)

\* a store that writes the rebuilt bytes into the allocation the entry has
replace_data_in_place(bs, command, new_blob_data) ==
    [buffers |-> [bs EXCEPT ![command.data].bytes = new_blob_data],
     command |-> command]

\* command.data = Arc::new(new_blob_data.0): a new allocation is made for
\* the rebuilt bytes, the entry points to it, and the Arc the entry had is
\* dropped
replace_data(bs, command, new_blob_data) ==
    LET made == DataNew(bs, new_blob_data) IN
    [buffers |-> DataDrop(made.buffers, command.data),
     command |-> store_data(command, made.ptr)]

\* ServoBlobImageHandler::add: the entry holds data.clone(), the parameter
\* is dropped when add returns
OwnedAdd ==
    /\ last.op = "none"
    /\ Len(buffers) < MaxArcs
    /\ \E key \in Keys, data \in OwnedBuffers, visible_rect \in Rects,
          keep \in BOOLEAN :
       \E arg \in {HandOver(buffers, data, keep)} :
        /\ blob_commands' =
              insert(blob_commands, key, BlobCommand(arg.ptr, visible_rect, 16))
        /\ buffers' =
              DataDrop(DropDisplaced(DataClone(arg.buffers, arg.ptr),
                                     blob_commands, key),
                       arg.ptr)
        /\ held' = Kept(arg.ptr, data, keep)
        /\ last' = Call("add", key, arg.ptr, visible_rect, 16, DirtyAll, FALSE)
        /\ UNCHANGED <<heap, codecVars, threadVars, batchVars, handleVars,
                       paintVars>>

\* ServoBlobImageHandler::update: reads the bytes behind the parameter,
\* stores an Arc of the rebuilt bytes, and drops the parameter when it
\* returns
OwnedUpdate ==
    /\ last.op = "none"
    /\ Len(buffers) + 2 <= MaxArcs
    /\ \E key \in Keys, data \in OwnedBuffers, visible_rect \in Rects,
          dirty_rect \in DirtyRects, keep \in BOOLEAN :
       \E arg \in {HandOver(buffers, data, keep)} :
        /\ IF get_mut(blob_commands, key) = <<>>
           THEN /\ blob_commands' = blob_commands
                /\ buffers' = DataDrop(arg.buffers, arg.ptr)
                /\ heap' = heap
                /\ last' = Call("update", key, arg.ptr, visible_rect, 0,
                                dirty_rect, FALSE)
           ELSE \E command \in {get_mut(blob_commands, key)[1]} :
                \E r \in {update_rebuild(heap, command,
                                          arg.buffers[arg.ptr].bytes,
                                          visible_rect, dirty_rect)} :
                \E new \in {replace_data(arg.buffers, command,
                                         r.new_blob_data)} :
                   /\ blob_commands' =
                         IF r.panic THEN blob_commands
                         ELSE [blob_commands EXCEPT ![key] =
                                  <<store_visible_rect(new.command,
                                                       visible_rect)>>]
                   /\ buffers' =
                         DataDrop(IF r.panic THEN arg.buffers ELSE new.buffers,
                                  arg.ptr)
                   /\ heap' = r.heap
                   /\ last' = Call("update", key, arg.ptr, visible_rect, 0,
                                   dirty_rect, r.panic)
        /\ held' = Kept(arg.ptr, data, keep)
        /\ UNCHANGED <<codecVars, threadVars, batchVars, handleVars, paintVars>>

\* ServoBlobImageHandler::delete: the removed entry is dropped with its Arc
OwnedDelete ==
    /\ last.op = "none"
    /\ \E key \in Keys :
        /\ blob_commands' = remove(blob_commands, key)
        /\ buffers' = DropDisplaced(buffers, blob_commands, key)
        /\ last' = Call("delete", key, <<>>, RectA, 0, DirtyAll,
                        remove_panics(blob_commands, key))
        /\ UNCHANGED <<heap, held, codecVars, threadVars, batchVars,
                       handleVars, paintVars>>

\* the producer drops an Arc it had kept
OwnedRelease ==
    /\ last.op = "none"
    /\ \E h \in held :
        /\ held' = held \ {h}
        /\ buffers' = DataDrop(buffers, h.ptr)
        /\ UNCHANGED <<heap, blob_commands, last, codecVars, threadVars,
                       batchVars, handleVars, paintVars>>

NextOwners ==
    \/ OwnedAdd
    \/ OwnedUpdate
    \/ OwnedDelete
    \/ OwnedRelease
    \/ HandlerReturn

SpecOwners == InitHandler /\ [][NextOwners]_vars

----------------------------------------------------------------------------
(* Threads: handler calls and rasterize_blob, step by step under the Mutex *)

\* two handlers that share the map (the original and a create_similar
\* clone), each called from its own thread, and one rasterizer worker
Handlers == {"h1", "h2"}
Workers == {"w1"}
Threads == Handlers \cup Workers

\* the buffers handed to the handler in the interleaved runs
RaceBuffers == BuffersUpTo(1)

NoLocal ==
    [key |-> "k1", data |-> <<>>, visible_rect |-> RectA, dirty_rect |-> DirtyAll,
     seen |-> <<>>, snap |-> <<>>, new_blob_data |-> <<>>,
     iter |-> from_raw(<<>>), painted |-> <<>>, req |-> 0]

\* lock() returns at once whoever holds the guard
MutexNeverBlocks(t) == TRUE

\* Mutex::lock blocks until no thread holds the guard
MutexAvailable(t) == lock = <<>>

\* the guard of update dropped at the end of the if-let scrutinee
GuardOfUpdateDropped(t) == <<>>

\* update, line 205: the guard that lock().unwrap() returns is a temporary
\* of the if-let scrutinee, so it is held through the body of the if-let
GuardOfUpdate(t) == <<t>>

\* the guard of update dropped as soon as the buffer is stored
GuardDroppedAfterStoreData(t) == <<>>

\* update, lines 221-222: the guard is still held between the two stores
GuardAfterStoreData(t) == <<t>>

InitThreads ==
    /\ heap = ProducerHeap
    /\ blob_commands = [k \in Keys |-> <<>>]
    /\ last = NoCall
    /\ lock = <<>>
    /\ poisoned = FALSE
    /\ pc = [t \in Threads |-> "idle"]
    /\ local = [t \in Threads |-> NoLocal]
    /\ committed = [k \in Keys |-> <<>>]
    /\ acquired = <<>>
    /\ CodecIdle
    /\ BatchIdle
    /\ HandlesIdle
    /\ PaintIdle
    /\ OwnersIdle

\* add: lock().unwrap().insert(..) is one statement, the guard is dropped
\* at its end
HandlerAdd(h) ==
    \E key \in Keys, data \in RaceBuffers,
       visible_rect \in Rects, tile_size \in TileSizes :
        /\ pc[h] = "idle"
        /\ MutexAvailable(h) /\ ~poisoned
        /\ blob_commands' =
              insert(blob_commands, key, BlobCommand(data, visible_rect, tile_size))
        /\ committed' =
              [committed EXCEPT ![key] =
                  <<BlobCommand(data, visible_rect, tile_size)>>]
        /\ UNCHANGED <<heap, last, lock, poisoned, pc, local, acquired,
                       codecVars, batchVars, handleVars, paintVars, ownerVars>>

\* delete: lock().unwrap().remove(..) is one statement
HandlerDelete(h) ==
    \E key \in Keys :
        /\ pc[h] = "idle"
        /\ MutexAvailable(h) /\ ~poisoned
        /\ blob_commands' = remove(blob_commands, key)
        /\ committed' = [committed EXCEPT ![key] = <<>>]
        /\ UNCHANGED <<heap, last, lock, poisoned, pc, local, acquired,
                       codecVars, batchVars, handleVars, paintVars, ownerVars>>

\* update, line 205, called with these arguments: the guard is taken and
\* get_mut looks the key up
UpdateLockWith(h, key, data, visible_rect, dirty_rect) ==
    /\ pc[h] = "idle"
    /\ MutexAvailable(h) /\ ~poisoned
    /\ lock' = GuardOfUpdate(h)
    /\ pc' = [pc EXCEPT ![h] =
                 IF get_mut(blob_commands, key) = <<>>
                 THEN "update_miss" ELSE "update_build"]
    /\ local' = [local EXCEPT ![h] =
                    [NoLocal EXCEPT !.key = key, !.data = data,
                                    !.visible_rect = visible_rect,
                                    !.dirty_rect = dirty_rect,
                                    !.seen = get_mut(blob_commands, key),
                                    !.snap = committed[key]]]
    /\ UNCHANGED <<heap, blob_commands, last, poisoned, committed,
                   codecVars, batchVars, handleVars, paintVars, ownerVars>>

\* update, line 205
UpdateLock(h) ==
    \E key \in Keys, data \in RaceBuffers,
       visible_rect \in Rects, dirty_rect \in DirtyRects :
        /\ UpdateLockWith(h, key, data, visible_rect, dirty_rect)
        /\ UNCHANGED acquired

\* update, get_mut returned None: the if-let ends and drops the guard
UpdateMiss(h) ==
    /\ pc[h] = "update_miss"
    /\ lock' = <<>>
    /\ pc' = [pc EXCEPT ![h] = "idle"]
    /\ local' = [local EXCEPT ![h] = NoLocal]
    /\ UNCHANGED <<heap, blob_commands, last, poisoned, committed,
                       acquired, codecVars, batchVars, handleVars, paintVars, ownerVars>>

\* update, lines 206-220: the new buffer is built; a panic of the decoder
\* unwinds with the guard held and poisons the Mutex
UpdateBuild(h) ==
    /\ pc[h] = "update_build"
    /\ \E r \in {update_rebuild(heap, local[h].seen[1], local[h].data,
                                 local[h].visible_rect, local[h].dirty_rect)} :
          /\ heap' = r.heap
          /\ pc' = [pc EXCEPT ![h] =
                       IF r.panic THEN "panicked" ELSE "update_store_data"]
          /\ local' = [local EXCEPT ![h].new_blob_data = r.new_blob_data]
          /\ lock' = IF r.panic THEN <<>> ELSE lock
          /\ poisoned' = (poisoned \/ r.panic)
    /\ UNCHANGED <<blob_commands, last, committed, acquired, codecVars,
                       batchVars, handleVars, paintVars, ownerVars>>

\* update, line 221.  The entry is borrowed mutably from the guard, so it
\* still is what get_mut found.
UpdateStoreData(h) ==
    /\ pc[h] = "update_store_data"
    /\ blob_commands' =
          [blob_commands EXCEPT ![local[h].key] =
              <<store_data(local[h].seen[1], local[h].new_blob_data)>>]
    /\ pc' = [pc EXCEPT ![h] = "update_store_rect"]
    /\ lock' = GuardAfterStoreData(h)
    /\ UNCHANGED <<heap, last, poisoned, local, committed, acquired,
                       codecVars, batchVars, handleVars, paintVars, ownerVars>>

\* update, lines 222-223: the visible rect is stored, the if-let ends and
\* the guard is dropped; the call is committed
UpdateStoreRect(h) ==
    /\ pc[h] = "update_store_rect"
    /\ lock = <<h>>
    /\ blob_commands' =
          [blob_commands EXCEPT ![local[h].key] =
              <<update_command(local[h].seen[1], local[h].new_blob_data,
                               local[h].visible_rect)>>]
    /\ committed' =
          [committed EXCEPT ![local[h].key] =
              <<BlobCommand(local[h].new_blob_data, local[h].visible_rect,
                            local[h].snap[1].tile_size)>>]
    /\ lock' = <<>>
    /\ pc' = [pc EXCEPT ![h] = "idle"]
    /\ local' = [local EXCEPT ![h] = NoLocal]
    /\ UNCHANGED <<heap, last, poisoned, acquired, codecVars, batchVars,
                       handleVars, paintVars, ownerVars>>

\* rasterize_blob, lines 287-288: the guard is taken and the map is
\* indexed by the request's key, which panics when the key is not there;
\* the panic unwinds with the guard held and poisons the Mutex
RasterLookup(w) ==
    \E key \in Keys :
        /\ pc[w] = "idle"
        /\ MutexAvailable(w) /\ ~poisoned
        /\ IF blob_commands[key] = <<>>
           THEN /\ pc' = [pc EXCEPT ![w] = "panicked"]
                /\ lock' = <<>>
                /\ poisoned' = TRUE
                /\ local' = [local EXCEPT ![w] =
                                [NoLocal EXCEPT !.key = key,
                                                !.snap = committed[key]]]
           ELSE /\ pc' = [pc EXCEPT ![w] = "raster_loop"]
                /\ lock' = <<w>>
                /\ poisoned' = poisoned
                /\ local' = [local EXCEPT ![w] =
                                [NoLocal EXCEPT
                                    !.key = key,
                                    !.seen = blob_commands[key],
                                    !.snap = committed[key],
                                    !.iter = from_raw(blob_commands[key][1].data)]]
        /\ UNCHANGED <<heap, blob_commands, last, committed, acquired,
                       codecVars, batchVars, handleVars, paintVars, ownerVars>>

\* rasterize_blob, lines 293-300: one turn of the loop; the command that
\* next() returns is painted
RasterNext(w) ==
    /\ pc[w] = "raster_loop"
    /\ \E r \in {next(local[w].iter)} :
          /\ pc' = [pc EXCEPT ![w] =
                       IF r.panic THEN "panicked"
                       ELSE IF r.item = <<>> THEN "raster_finish"
                       ELSE "raster_loop"]
          /\ local' = [local EXCEPT ![w].iter = r.it,
                                    ![w].painted = @ \o Views(heap, r.item)]
          /\ lock' = IF r.panic THEN <<>> ELSE lock
          /\ poisoned' = (poisoned \/ r.panic)
    /\ UNCHANGED <<heap, blob_commands, last, committed, acquired,
                       codecVars, batchVars, handleVars, paintVars, ownerVars>>

\* rasterize_blob, lines 317-327: the result is built and returned; the
\* guard, a temporary whose life the let of line 287 extends to the end
\* of the function, is dropped
RasterReturn(w) ==
    /\ pc[w] = "raster_finish"
    /\ lock' = <<>>
    /\ pc' = [pc EXCEPT ![w] = "idle"]
    /\ local' = [local EXCEPT ![w] = NoLocal]
    /\ UNCHANGED <<heap, blob_commands, last, poisoned, committed,
                       acquired, codecVars, batchVars, handleVars, paintVars, ownerVars>>

\* lock().unwrap() on the poisoned Mutex: the call panics
LockPoisoned(t) ==
    /\ pc[t] = "idle"
    /\ MutexAvailable(t) /\ poisoned
    /\ pc' = [pc EXCEPT ![t] = "panicked"]
    /\ UNCHANGED <<heap, blob_commands, last, lock, poisoned, local,
                       committed, acquired, codecVars, batchVars, handleVars,
                       paintVars, ownerVars>>

Next ==
    \/ \E h \in Handlers : HandlerAdd(h)
    \/ \E h \in Handlers : HandlerDelete(h)
    \/ \E h \in Handlers : UpdateLock(h)
    \/ \E h \in Handlers : UpdateMiss(h)
    \/ \E h \in Handlers : UpdateBuild(h)
    \/ \E h \in Handlers : UpdateStoreData(h)
    \/ \E h \in Handlers : UpdateStoreRect(h)
    \/ \E w \in Workers : RasterLookup(w)
    \/ \E w \in Workers : RasterNext(w)
    \/ \E w \in Workers : RasterReturn(w)
    \/ \E t \in Threads : LockPoisoned(t)

Spec == InitThreads /\ [][Next]_vars

----------------------------------------------------------------------------
(* Two handler threads that each call update once, on a registry that
   holds one entry *)

\* the registry before the two calls: add(k1, one FillRect, RectA, 16)
RaceRegistry ==
    insert([k \in Keys |-> <<>>], "k1",
           BlobCommand(EncodeAll(BlobDataNew, <<MadeFill.value>>), RectA, 16))

\* an update call: the thread that made it and its arguments
UpdateCall(by, key, data, visible_rect, dirty_rect) ==
    [by |-> by, key |-> key, data |-> data,
     visible_rect |-> visible_rect, dirty_rect |-> dirty_rect]

RECURSIVE UpdatesInTurn(_, _, _)
\* the update calls of log made one after the other, each to its end
\* before the next begins, on the map and the heap given
UpdatesInTurn(map, h, log) ==
    IF log = <<>> THEN [map |-> map, heap |-> h]
    ELSE LET c == Head(log)
             found == get_mut(map, c.key)
         IN IF found = <<>> THEN UpdatesInTurn(map, h, Tail(log))
            ELSE LET r == update_rebuild(h, found[1], c.data,
                                         c.visible_rect, c.dirty_rect)
                 IN UpdatesInTurn(
                        [map EXCEPT ![c.key] =
                            <<update_command(found[1], r.new_blob_data,
                                             c.visible_rect)>>],
                        r.heap, Tail(log))

InitUpdates ==
    /\ heap = ProducerHeap
    /\ blob_commands = RaceRegistry
    /\ committed = RaceRegistry
    /\ last = NoCall
    /\ lock = <<>>
    /\ poisoned = FALSE
    /\ pc = [t \in Threads |-> "idle"]
    /\ local = [t \in Threads |-> NoLocal]
    /\ acquired = <<>>
    /\ CodecIdle
    /\ BatchIdle
    /\ HandlesIdle
    /\ PaintIdle
    /\ OwnersIdle

\* the one update call of thread h: it takes the guard when the Mutex
\* lets it
ConcurrentUpdate(h) ==
    \E key \in Keys, data \in RaceBuffers,
       visible_rect \in Rects, dirty_rect \in DirtyRects :
        /\ \A i \in 1..Len(acquired) : acquired[i].by # h
        /\ UpdateLockWith(h, key, data, visible_rect, dirty_rect)
        /\ acquired' =
              Append(acquired,
                     UpdateCall(h, key, data, visible_rect, dirty_rect))

NextUpdates ==
    \/ \E h \in Handlers : ConcurrentUpdate(h)
    \/ \E h \in Handlers : UpdateMiss(h)
    \/ \E h \in Handlers : UpdateBuild(h)
    \/ \E h \in Handlers : UpdateStoreData(h)
    \/ \E h \in Handlers : UpdateStoreRect(h)

SpecUpdates == InitUpdates /\ [][NextUpdates]_vars

----------------------------------------------------------------------------
(* rasterize: a batch of requests, sequentially or on the worker pool *)

\* the thread that calls rasterize, and the threads of the pool
Caller == "c"
PoolWorkers == {"p1", "p2"}
RasterThreads == {Caller} \cup PoolWorkers

Formats == {"RGBA8", "BGRA8"}
Tiles == {0, 1}

\* BlobImageRequest { key, tile }: the identity of a request
BlobImageRequest(key, tile) == [key |-> key, tile |-> tile]

\* BlobImageParams: the request and the format of its descriptor
BlobImageParams(key, tile, format) ==
    [request |-> BlobImageRequest(key, tile), format |-> format]

\* the batches: requests of a batch differ in key or tile
Batches ==
    {b \in UNION {[1..n -> {BlobImageParams(k, t, f) :
                               k \in Keys, t \in Tiles, f \in Formats}] :
                  n \in 0..MaxBatch} :
        \A i, j \in DOMAIN b : i # j => b[i].request # b[j].request}

\* the maps a batch is rasterized against
RasterRegistries ==
    {[k \in Keys |-> IF k = "k1" THEN a ELSE b] :
        a \in {<<>>, <<BlobCommand(EncodeAll(BlobDataNew, <<MadePolygon.value>>),
                                   RectB, 16)>>},
        b \in {<<>>, <<BlobCommand(EncodeAll(BlobDataNew,
                                             <<MadeFill.value, MadePolygon.value>>),
                                   RectA, 32)>>}}

\* a request that no thread has started; ended is history: the place of
\* the request among those of the batch whose rasterize_blob has returned
PendingSlot ==
    [state |-> "pending", by |-> "none", runs |-> 0, cause |-> "none",
     result |-> <<>>, ended |-> 0]

\* the slot of a request whose rasterize_blob panicked
PanickedSlot(slot, cause) == [slot EXCEPT !.state = "panicked", !.cause = cause]

\* (request.request, Ok(RasterizedBlobImage { .. })): the identity of the
\* request and what was painted into its pixmap
BlobResult(params, painted) == [request |-> params.request, painted |-> painted]

\* a sequential map that takes the requests in any order
SequentialPickAny(sl) == {i \in DOMAIN sl : sl[i].state = "pending"}

\* requests.into_iter().map(|r| self.rasterize_blob(r)).collect(): the
\* next request is taken when the one before it has returned; a panic
\* unwinds out of collect
SequentialPick(sl) ==
    IF \E i \in DOMAIN sl : sl[i].state \in {"running", "panicked"}
    THEN {}
    ELSE {i \in DOMAIN sl :
             /\ sl[i].state = "pending"
             /\ \A j \in 1..(i - 1) : sl[j].state # "pending"}

\* a parallel map that hands out requests that were handed out before
ParallelPickAgain(sl) == {i \in DOMAIN sl : sl[i].state \in {"pending", "done"}}

\* requests.into_par_iter().map(|r| self.rasterize_blob(r)): the slice is
\* split among the threads of the pool, each request is in one part
ParallelPick(sl) == {i \in DOMAIN sl : sl[i].state = "pending"}

\* install that returns as soon as one job of the pool has ended
RasterizeFinishedEarly(sl, multithreading) ==
    IF multithreading
    THEN sl = <<>> \/ \E i \in DOMAIN sl : sl[i].state \in {"done", "panicked"}
    ELSE \/ \A i \in DOMAIN sl : sl[i].state = "done"
         \/ \E i \in DOMAIN sl : sl[i].state = "panicked"

\* collect() is over: sequentially, when the last request has returned or
\* one has panicked; on the pool, install returns when every job has
\* ended, and then resumes the panic of a job if there is one
RasterizeFinished(sl, multithreading) ==
    IF multithreading
    THEN \A i \in DOMAIN sl : sl[i].state \in {"done", "panicked"}
    ELSE \/ \A i \in DOMAIN sl : sl[i].state = "done"
         \/ \E i \in DOMAIN sl : sl[i].state = "panicked"

\* a collect that pushes each result as its rasterize_blob returns
collect_as_returned(sl) ==
    [n \in DOMAIN sl |-> sl[CHOOSE i \in DOMAIN sl : sl[i].ended = n].result[1]]

\* .collect() into the Vec that rasterize returns, lines 341 and 348: the
\* slice iterator and its map are indexed, and collecting an indexed
\* iterator writes the result of the i-th item at place i of the Vec
collect(sl) == [i \in DOMAIN sl |-> sl[i].result[1]]

\* how a rasterize call ended: with the Vec of results, in the order of
\* the requests, or with a panic
Outcome(sl, multithreading) ==
    IF \E i \in DOMAIN sl : sl[i].state # "done"
    THEN [multithreading |-> multithreading, kind |-> "panicked", results |-> <<>>]
    ELSE [multithreading |-> multithreading, kind |-> "returned",
          results |-> collect(sl)]

InitRaster ==
    /\ heap = ProducerHeap
    /\ blob_commands \in RasterRegistries
    /\ committed = blob_commands
    /\ last = NoCall
    /\ lock = <<>>
    /\ poisoned = FALSE
    /\ pc = [t \in RasterThreads |-> "idle"]
    /\ local = [t \in RasterThreads |-> NoLocal]
    /\ acquired = <<>>
    /\ requests \in Batches
    /\ enable_multithreading \in BOOLEAN
    /\ slots = <<>>
    /\ call = "none"
    /\ outcomes = <<>>
    /\ CodecIdle
    /\ HandlesIdle
    /\ PaintIdle
    /\ OwnersIdle

\* rasterize is called with the batch: first on a rasterizer with the
\* flag as it was set, then on one with the other setting
RasterizeCall ==
    /\ call = "none"
    /\ Len(outcomes) < 2
    /\ call' = "running"
    /\ enable_multithreading' =
          IF outcomes = <<>> THEN enable_multithreading
          ELSE ~outcomes[1].multithreading
    /\ slots' = [i \in DOMAIN requests |-> PendingSlot]
    /\ UNCHANGED <<heap, blob_commands, last, requests, outcomes,
                   threadVars, codecVars, handleVars, paintVars, ownerVars>>

\* rasterize_blob, lines 281-286: a thread takes a request; a format
\* other than RGBA8 is unimplemented!(), a panic
BlobStart(t) ==
    \E i \in (IF enable_multithreading
              THEN ParallelPick(slots) ELSE SequentialPick(slots)) :
        /\ call = "running"
        /\ t \in (IF enable_multithreading THEN PoolWorkers ELSE {Caller})
        /\ pc[t] = "idle"
        /\ IF requests[i].format # "RGBA8"
           THEN /\ slots' = [slots EXCEPT ![i] =
                               PanickedSlot([@ EXCEPT !.by = t,
                                                      !.runs = @ + 1], "format")]
                /\ UNCHANGED <<pc, local>>
           ELSE /\ slots' = [slots EXCEPT ![i] =
                               [@ EXCEPT !.state = "running", !.by = t,
                                         !.runs = @ + 1]]
                /\ pc' = [pc EXCEPT ![t] = "raster_lock"]
                /\ local' = [local EXCEPT ![t] =
                                [NoLocal EXCEPT !.req = i,
                                                !.key = requests[i].request.key]]
        /\ UNCHANGED <<heap, blob_commands, last, lock, poisoned, committed,
                       acquired, requests, enable_multithreading, call,
                       outcomes, codecVars, handleVars, paintVars, ownerVars>>

\* a lookup that takes the entry out of the map
map_index_taking(map, key) ==
    [map |-> [map EXCEPT ![key] = <<>>], entry |-> map[key]]

\* &guard[&request.request.key], line 287: Index::index borrows the map and
\* the entry is read in place; the map afterwards and the entry found
map_index(map, key) == [map |-> map, entry |-> map[key]]

\* rasterize_blob, lines 287-288: lock().unwrap() panics on a poisoned
\* Mutex; the index panics on a key that is not in the map, and the guard
\* dropped by that panic poisons the Mutex
BlobLookup(t) ==
    /\ pc[t] = "raster_lock"
    /\ MutexAvailable(t)
    /\ IF poisoned \/ blob_commands[local[t].key] = <<>>
       THEN /\ slots' = [slots EXCEPT ![local[t].req] =
                           PanickedSlot(@, IF poisoned THEN "poisoned"
                                           ELSE "missing")]
            /\ poisoned' = TRUE
            /\ pc' = [pc EXCEPT ![t] = "idle"]
            /\ local' = [local EXCEPT ![t] = NoLocal]
            /\ lock' = <<>>
            /\ blob_commands' = blob_commands
       ELSE /\ lock' = <<t>>
            /\ pc' = [pc EXCEPT ![t] = "raster_loop"]
            /\ \E found \in {map_index(blob_commands, local[t].key)} :
                  /\ blob_commands' = found.map
                  /\ local' = [local EXCEPT
                                  ![t].seen = found.entry,
                                  ![t].snap = committed[local[t].key],
                                  ![t].iter = from_raw(found.entry[1].data)]
            /\ UNCHANGED <<slots, poisoned>>
    /\ UNCHANGED <<heap, last, committed, acquired, requests,
                   enable_multithreading, call, outcomes, codecVars,
                   handleVars, paintVars, ownerVars>>

\* rasterize_blob, lines 293-300: one turn of the loop
BlobNext(t) ==
    /\ pc[t] = "raster_loop"
    /\ call = "running"
    /\ \E r \in {next(local[t].iter)} :
          /\ pc' = [pc EXCEPT ![t] =
                       IF r.panic THEN "idle"
                       ELSE IF r.item = <<>> THEN "raster_finish"
                       ELSE "raster_loop"]
          /\ local' = [local EXCEPT ![t].iter = r.it,
                                    ![t].painted = @ \o Views(heap, r.item)]
          /\ lock' = IF r.panic THEN <<>> ELSE lock
          /\ poisoned' = (poisoned \/ r.panic)
          /\ slots' = IF r.panic
                      THEN [slots EXCEPT ![local[t].req] = PanickedSlot(@, "decode")]
                      ELSE slots
    /\ UNCHANGED <<heap, blob_commands, last, committed, acquired, requests,
                   enable_multithreading, call, outcomes, codecVars,
                   handleVars, paintVars, ownerVars>>

\* rasterize_blob, lines 317-327: the result is returned with the
\* identity of the request, and the guard is dropped
BlobFinish(t) ==
    /\ pc[t] = "raster_finish"
    /\ call = "running"
    /\ slots' = [slots EXCEPT ![local[t].req] =
                    [@ EXCEPT !.state = "done",
                              !.ended = 1 + Cardinality({j \in DOMAIN slots :
                                                slots[j].state = "done"}),
                              !.result = <<BlobResult(requests[local[t].req],
                                                      local[t].painted)>>]]
    /\ lock' = <<>>
    /\ pc' = [pc EXCEPT ![t] = "idle"]
    /\ local' = [local EXCEPT ![t] = NoLocal]
    /\ UNCHANGED <<heap, blob_commands, last, poisoned, committed, acquired,
                   requests, enable_multithreading, call, outcomes,
                   codecVars, handleVars, paintVars, ownerVars>>

\* rasterize, lines 336-349: collect() ends and rasterize returns the
\* results, or the panic of a request goes on to the caller
RasterizeEnd ==
    /\ call = "running"
    /\ RasterizeFinished(slots, enable_multithreading)
    /\ call' = "none"
    /\ outcomes' = Append(outcomes, Outcome(slots, enable_multithreading))
    /\ UNCHANGED <<heap, blob_commands, last, requests, enable_multithreading,
                   slots, threadVars, codecVars, handleVars, paintVars, ownerVars>>

NextRaster ==
    \/ RasterizeCall
    \/ \E t \in RasterThreads : BlobStart(t)
    \/ \E t \in RasterThreads : BlobLookup(t)
    \/ \E t \in RasterThreads : BlobNext(t)
    \/ \E t \in RasterThreads : BlobFinish(t)
    \/ RasterizeEnd

SpecRaster == InitRaster /\ [][NextRaster]_vars

----------------------------------------------------------------------------
(* A batch is rasterized while a handler clone makes calls *)

\* the thread that holds the handler clone
Mutator == "h1"
\* most calls the handler clone makes
MaxCalls == 2

\* the buffer the handler clone hands to add and update
LiveBuffer == EncodeAll(BlobDataNew, <<MadeFill.value>>)

\* the batches rasterized meanwhile: requests for tile 0
LiveBatches == {b \in Batches : \A i \in DOMAIN b : b[i].request.tile = 0}

\* a call of the handler clone, as the history keeps it
LiveCall(by, op, key) == [by |-> by, op |-> op, key |-> key]

InitLive ==
    /\ heap = ProducerHeap
    /\ blob_commands \in RasterRegistries
    /\ committed = blob_commands
    /\ last = NoCall
    /\ lock = <<>>
    /\ poisoned = FALSE
    /\ pc = [t \in RasterThreads \cup {Mutator} |-> "idle"]
    /\ local = [t \in RasterThreads \cup {Mutator} |-> NoLocal]
    /\ acquired = <<>>
    /\ requests \in LiveBatches
    /\ enable_multithreading \in BOOLEAN
    /\ slots = <<>>
    /\ call = "none"
    /\ outcomes = <<>>
    /\ CodecIdle
    /\ HandlesIdle
    /\ PaintIdle
    /\ OwnersIdle

\* add on the clone, line 188: blocks until the guard is free
LiveAdd(h) ==
    /\ pc[h] = "idle"
    /\ Len(acquired) < MaxCalls
    /\ MutexAvailable(h) /\ ~poisoned
    /\ \E key \in Keys :
          /\ blob_commands' =
                insert(blob_commands, key, BlobCommand(LiveBuffer, RectA, 16))
          /\ committed' =
                [committed EXCEPT ![key] = <<BlobCommand(LiveBuffer, RectA, 16)>>]
          /\ acquired' = Append(acquired, LiveCall(h, "add", key))
    /\ UNCHANGED <<heap, last, lock, poisoned, pc, local,
                   codecVars, batchVars, handleVars, paintVars, ownerVars>>

\* delete on the clone, line 227
LiveDelete(h) ==
    /\ pc[h] = "idle"
    /\ Len(acquired) < MaxCalls
    /\ MutexAvailable(h) /\ ~poisoned
    /\ \E key \in Keys :
          /\ blob_commands' = remove(blob_commands, key)
          /\ committed' = [committed EXCEPT ![key] = <<>>]
          /\ acquired' = Append(acquired, LiveCall(h, "delete", key))
    /\ UNCHANGED <<heap, last, lock, poisoned, pc, local,
                   codecVars, batchVars, handleVars, paintVars, ownerVars>>

\* update on the clone, line 205: the guard is taken
LiveUpdate(h) ==
    /\ Len(acquired) < MaxCalls
    /\ \E key \in Keys :
          /\ UpdateLockWith(h, key, LiveBuffer, RectA, DirtyAll)
          /\ acquired' = Append(acquired, LiveCall(h, "update", key))
    /\ UNCHANGED batchVars

\* the steps of a call or of a request that has begun
LiveStep(t) ==
    \/ BlobStart(t)
    \/ BlobLookup(t)
    \/ BlobNext(t)
    \/ BlobFinish(t)
    \/ UpdateMiss(t)
    \/ UpdateBuild(t)
    \/ UpdateStoreData(t)
    \/ UpdateStoreRect(t)

NextLive ==
    \/ RasterizeCall
    \/ \E t \in RasterThreads : BlobStart(t)
    \/ \E t \in RasterThreads : BlobLookup(t)
    \/ \E t \in RasterThreads : BlobNext(t)
    \/ \E t \in RasterThreads : BlobFinish(t)
    \/ RasterizeEnd
    \/ LiveAdd(Mutator)
    \/ LiveDelete(Mutator)
    \/ LiveUpdate(Mutator)
    \/ UpdateMiss(Mutator)
    \/ UpdateBuild(Mutator)
    \/ UpdateStoreData(Mutator)
    \/ UpdateStoreRect(Mutator)
    \/ LockPoisoned(Mutator)

\* a thread that is in a call goes on: the caller, the threads of the
\* pool and the thread of the clone are scheduled, and collect() ends
\* when its requests have
LiveFairness ==
    /\ \A t \in RasterThreads \cup {Mutator} : WF_vars(LiveStep(t))
    /\ WF_vars(RasterizeEnd)

SpecLive == InitLive /\ [][NextLive]_vars /\ LiveFairness

----------------------------------------------------------------------------
(* Handles: handlers, their create_similar clones and their rasterizers *)

\* a ServoBlobImageHandler or ServoBlobRasterizer: its flag and the
\* pointer of its Arc<Mutex<HashMap>>
Handle(kind, flag, ptr) ==
    [kind |-> kind, enable_multithreading |-> flag, blob_commands |-> ptr]

\* a clone that copies the map into an allocation of its own
ArcDeepClone(as, ptr) == [arcs |-> Append(as, as[ptr]), ptr |-> Len(as) + 1]

\* Arc::clone: another pointer to the same allocation
ArcClone(as, ptr) == [arcs |-> as, ptr |-> ptr]

\* the map a handle reaches through its Arc
MapOf(h) == arcs[handles[h].blob_commands]

\* what the handles are called with
HandleRects == {RectA, RectC}
HandleDirtyRects == {DirtyAll, DirtyPartial(RectC)}

HandlersOf(hs) == {h \in DOMAIN hs : hs[h].kind = "handler"}
RasterizersOf(hs) == {h \in DOMAIN hs : hs[h].kind = "rasterizer"}

\* the last add / update / delete: through which handle, on which key,
\* and the entry it left
Wrote(via, op, key, entry) == [via |-> via, op |-> op, key |-> key, entry |-> entry]

\* ServoBlobImageHandler::new()
InitHandles ==
    /\ heap = ProducerHeap
    /\ arcs = <<[k \in Keys |-> <<>>]>>
    /\ handles = <<Handle("handler", TRUE, 1)>>
    /\ toggled = <<>>
    /\ ran = <<>>
    /\ wrote = <<>>
    /\ blob_commands = [k \in Keys |-> <<>>]
    /\ last = NoCall
    /\ lock = <<>>
    /\ poisoned = FALSE
    /\ pc = <<>>
    /\ local = <<>>
    /\ committed = <<>>
    /\ acquired = <<>>
    /\ BatchIdle
    /\ CodecIdle
    /\ PaintIdle
    /\ OwnersIdle

\* create_similar: the flag is copied, the Arc is cloned
CreateSimilar ==
    \E h \in HandlersOf(handles) :
        /\ ran = <<>> /\ wrote = <<>>
        /\ Len(handles) < MaxHandles
        /\ \E c \in {ArcClone(arcs, handles[h].blob_commands)} :
              /\ arcs' = c.arcs
              /\ handles' = Append(handles,
                                   Handle("handler",
                                          handles[h].enable_multithreading, c.ptr))
        /\ UNCHANGED <<heap, blob_commands, last, toggled, ran, wrote,
                       threadVars, batchVars, codecVars, paintVars, ownerVars>>

\* create_blob_rasterizer: the flag is copied, the Arc is cloned
CreateBlobRasterizer ==
    \E h \in HandlersOf(handles) :
        /\ ran = <<>> /\ wrote = <<>>
        /\ Len(handles) < MaxHandles
        /\ \E c \in {ArcClone(arcs, handles[h].blob_commands)} :
              /\ arcs' = c.arcs
              /\ handles' = Append(handles,
                                   Handle("rasterizer",
                                          handles[h].enable_multithreading, c.ptr))
        /\ UNCHANGED <<heap, blob_commands, last, toggled, ran, wrote,
                       threadVars, batchVars, codecVars, paintVars, ownerVars>>

\* enable_multithreading(enable): self.enable_multithreading = enable
EnableMultithreading ==
    \E h \in HandlersOf(handles), enable \in BOOLEAN :
        /\ ran = <<>> /\ wrote = <<>>
        /\ handles' = [handles EXCEPT ![h].enable_multithreading = enable]
        /\ toggled' = <<enable>>
        /\ UNCHANGED <<heap, blob_commands, last, arcs, ran, wrote,
                       threadVars, batchVars, codecVars, paintVars, ownerVars>>

\* add through a handler
HandleAdd ==
    \E h \in HandlersOf(handles), key \in Keys, data \in RaceBuffers,
       visible_rect \in HandleRects :
        /\ ran = <<>> /\ wrote = <<>>
        /\ arcs' = [arcs EXCEPT ![handles[h].blob_commands] =
                       insert(@, key, BlobCommand(data, visible_rect, 16))]
        /\ wrote' = <<Wrote(h, "add", key, <<BlobCommand(data, visible_rect, 16)>>)>>
        /\ UNCHANGED <<heap, blob_commands, last, handles, toggled, ran,
                       threadVars, batchVars, codecVars, paintVars, ownerVars>>

\* update through a handler, of a key that is in its map
HandleUpdate ==
    \E h \in HandlersOf(handles), key \in Keys, data \in RaceBuffers,
       visible_rect \in HandleRects, dirty_rect \in HandleDirtyRects :
        /\ ran = <<>> /\ wrote = <<>>
        /\ get_mut(MapOf(h), key) # <<>>
        /\ \E command \in {get_mut(MapOf(h), key)[1]} :
           \E r \in {update_rebuild(heap, command, data, visible_rect, dirty_rect)} :
              /\ ~r.panic
              /\ heap' = r.heap
              /\ arcs' = [arcs EXCEPT ![handles[h].blob_commands][key] =
                             <<update_command(command, r.new_blob_data,
                                              visible_rect)>>]
              /\ wrote' = <<Wrote(h, "update", key,
                                  <<update_command(command, r.new_blob_data,
                                                   visible_rect)>>)>>
        /\ UNCHANGED <<blob_commands, last, handles, toggled, ran,
                       threadVars, batchVars, codecVars, paintVars, ownerVars>>

\* delete through a handler
HandleDelete ==
    \E h \in HandlersOf(handles), key \in Keys :
        /\ ran = <<>> /\ wrote = <<>>
        /\ arcs' = [arcs EXCEPT ![handles[h].blob_commands] = remove(@, key)]
        /\ wrote' = <<Wrote(h, "delete", key, <<>>)>>
        /\ UNCHANGED <<heap, blob_commands, last, handles, toggled, ran,
                       threadVars, batchVars, codecVars, paintVars, ownerVars>>

\* rasterize through a rasterizer, line 336: the mode is the flag the
\* rasterizer holds
HandleRasterize ==
    \E h \in RasterizersOf(handles) :
        /\ ran = <<>> /\ wrote = <<>>
        /\ ran' = <<[via |-> h,
                     multithreading |-> handles[h].enable_multithreading]>>
        /\ UNCHANGED <<heap, blob_commands, last, arcs, handles, toggled, wrote,
                       threadVars, batchVars, codecVars, paintVars, ownerVars>>

\* the call returns; its history is dropped
HandleReturn ==
    /\ ran # <<>> \/ wrote # <<>>
    /\ ran' = <<>>
    /\ wrote' = <<>>
    /\ UNCHANGED <<heap, blob_commands, last, arcs, handles, toggled,
                   threadVars, batchVars, codecVars, paintVars, ownerVars>>

NextHandles ==
    \/ CreateSimilar
    \/ CreateBlobRasterizer
    \/ EnableMultithreading
    \/ HandleAdd
    \/ HandleUpdate
    \/ HandleDelete
    \/ HandleRasterize
    \/ HandleReturn

SpecHandles == InitHandles /\ [][NextHandles]_vars

----------------------------------------------------------------------------
(* rasterize_blob, pixel by pixel: one request painted into its Pixmap *)

\* Box2D::width, Box2D::height, Box2D::size
width(b) == b.max[1] - b.min[1]
height(b) == b.max[2] - b.min[2]
size(b) == <<width(b), height(b)>>

\* Box2D::from_size: the box of that size at the origin
from_size(sz) == Box2D(0, 0, sz[1], sz[2])

\* Box2D::translate, and transform_box of a translation
translate(b, v) ==
    Box2D(b.min[1] + v[1], b.min[2] + v[2], b.max[1] + v[1], b.max[2] + v[2])

\* Box2D::intersection: None for an empty intersection
intersection(a, b) ==
    IF is_empty(intersection_unchecked(a, b)) THEN <<>>
    ELSE <<intersection_unchecked(a, b)>>

\* a dirty rect that is handed on as it is
to_subrect_of_unclipped(dirty_rect, rect) ==
    IF dirty_rect.kind = "All" THEN rect ELSE dirty_rect.rect

\* DirtyRect::to_subrect_of: the rect itself for All, the intersection or
\* the zero box for Partial
to_subrect_of(dirty_rect, rect) ==
    IF dirty_rect.kind = "All" THEN rect
    ELSE IF intersection(dirty_rect.rect, rect) = <<>> THEN Box2D(0, 0, 0, 0)
    ELSE intersection(dirty_rect.rect, rect)[1]

\* Pixmap::new: None for a zero width or height
PixmapNew(w, h) ==
    IF w <= 0 \/ h <= 0 THEN <<>>
    ELSE <<[width |-> w, height |-> h, pixels |-> {}]>>

\* the pixels of a pixmap: <<x, y>> is the unit square at (x, y)
PixelsOf(pm) == (0..(pm.width - 1)) \X (0..(pm.height - 1))

\* tiny_skia::Rect::from_xywh: None for a negative width or height; for a
\* zero width or height None or Some, as the version of the crate has it
from_xywh(x, y, w, h) ==
    IF w < 0 \/ h < 0 THEN {<<>>}
    ELSE IF w = 0 \/ h = 0 THEN {<<>>, <<Box2D(x, y, x + w, y + h)>>}
    ELSE {<<Box2D(x, y, x + w, y + h)>>}

\* to_tiny_skia_rect before its unwrap
to_tiny_skia_rect(bounds) ==
    from_xywh(bounds.min[1], bounds.min[2], width(bounds), height(bounds))

\* Pixmap::fill_rect with the default paint: the pixels of the pixmap that
\* the rect covers
fill_rect(pm, rect) ==
    {p \in PixelsOf(pm) :
        /\ rect.min[1] <= p[1] /\ p[1] < rect.max[1]
        /\ rect.min[2] <= p[2] /\ p[2] < rect.max[2]}

\* edge i of the closed path through pts
EdgeFrom(pts, i) == pts[i]
EdgeTo(pts, i) == pts[(i % Len(pts)) + 1]

\* what edge a -> b adds to the winding number of the point (cx, cy),
\* which is given, as are a and b here, in half pixels
EdgeWinding(a, b, cx, cy) ==
    LET side == (b[1] - a[1]) * (cy - a[2]) - (cx - a[1]) * (b[2] - a[2])
    IN IF a[2] <= cy /\ cy < b[2] /\ side > 0 THEN 1
       ELSE IF b[2] <= cy /\ cy < a[2] /\ side < 0 THEN 0 - 1
       ELSE 0

RECURSIVE WindingFrom(_, _, _, _)
\* the winding number of the path around the centre of pixel p, edges i..
WindingFrom(pts, i, cx, cy) ==
    IF i > Len(pts) THEN 0
    ELSE EdgeWinding(<<2 * EdgeFrom(pts, i)[1], 2 * EdgeFrom(pts, i)[2]>>,
                     <<2 * EdgeTo(pts, i)[1], 2 * EdgeTo(pts, i)[2]>>, cx, cy)
         + WindingFrom(pts, i + 1, cx, cy)

WindingNumber(pts, p) == WindingFrom(pts, 1, 2 * p[1] + 1, 2 * p[2] + 1)

\* tiny_skia::FillRule
FillRules == {"Winding", "EvenOdd"}

\* a pixel centre is inside the path under the fill rule
Inside(pts, rule, p) ==
    IF rule = "Winding" THEN WindingNumber(pts, p) # 0
    ELSE WindingNumber(pts, p) % 2 # 0

\* Pixmap::fill_path with the default paint: the pixels of the pixmap
\* whose centre is inside the path
fill_path(pm, pts, rule) == {p \in PixelsOf(pm) : Inside(pts, rule, p)}

\* the bounds of a point list have no width or no height
FlatPoints(pts) ==
    \/ \A i, j \in 1..Len(pts) : pts[i][1] = pts[j][1]
    \/ \A i, j \in 1..Len(pts) : pts[i][2] = pts[j][2]

\* PathBuilder: move_to the first point, line_to the others, close and
\* finish, before the unwrap.  finish is None for a path without a point;
\* for a path whose bounds have no width or no height it is None or Some,
\* as the version of the crate has it.
path_finish(pts) ==
    IF pts = <<>> THEN {<<>>}
    ELSE IF FlatPoints(pts) THEN {<<>>, <<pts>>}
    ELSE {<<pts>>}

\* process_blob, line 268: the fill rule handed to fill_path
PolygonFillRule == "Winding"

\* what a call of process_blob did: it panicked, or it painted pixels
Painted(kind, bounds, points, rule, pixels) ==
    [panic |-> FALSE, kind |-> kind, bounds |-> bounds, points |-> points,
     rule |-> rule, pixels |-> pixels]

PaintPanicked(kind, bounds, points) ==
    [panic |-> TRUE, kind |-> kind, bounds |-> bounds, points |-> points,
     rule |-> "none", pixels |-> {}]

\* process_blob(&mut pixmap, command): the outcomes it can have
process_blob(pm, command) ==
    IF command.kind = "FillRect"
    THEN {IF r = <<>>
          THEN PaintPanicked(command.kind, command.bounds, command.points)
          ELSE Painted(command.kind, command.bounds, command.points, "none",
                       fill_rect(pm, r[1])) :
             r \in to_tiny_skia_rect(command.bounds)}
    ELSE {IF path = <<>>
          THEN PaintPanicked(command.kind, command.bounds, command.points)
          ELSE Painted(command.kind, command.bounds, command.points,
                       PolygonFillRule,
                       fill_path(pm, path[1], PolygonFillRule)) :
             path \in path_finish(command.points)}

\* rasterize_blob, line 297, with the bounds left where they are
BoundsKept(bounds) == bounds

\* rasterize_blob, line 297: LayoutRect::from_size(command.bounds.size())
BoundsFromSize(bounds) == from_size(size(bounds))

\* rasterize_blob, lines 294-297: the bounds a command is painted with
PaintBounds(bounds, dirty_rect) ==
    BoundsFromSize(IF dirty_rect.kind = "All" THEN bounds
                   ELSE intersection_unchecked(bounds, dirty_rect.rect))

\* rasterize_blob, lines 317-319: the rasterized rect of the result
RasterizedRect(rect, dirty_rect) ==
    translate(to_subrect_of(dirty_rect, rect), <<0 - rect.min[1], 0 - rect.min[2]>>)

\* the target rects of the requests: the last one holds the others
RectT == Box2D(0, 0, 4, 4)
PaintTargets == {RectA, RectB, RectT}

\* a path that goes twice around the square: inside under the nonzero
\* rule, outside under the even-odd rule
DoubleSquare ==
    <<<<0, 0>>, <<2, 0>>, <<2, 2>>, <<0, 2>>,
      <<0, 0>>, <<2, 0>>, <<2, 2>>, <<0, 2>>>>

\* the commands of the buffers that are painted
PaintCommands ==
    <<FillRectCmd(RectA), FillRectCmd(RectB),
      DrawPolygonCmd(<<>>, RectA), DrawPolygonCmd(<<<<1, 1>>>>, RectA),
      DrawPolygonCmd(Triangle, RectA), DrawPolygonCmd(DoubleSquare, RectA)>>

RECURSIVE MakeCommands(_, _, _)
\* the producer builds the commands cs one after the other
MakeCommands(h, cs, values) ==
    IF cs = <<>> THEN [heap |-> h, values |-> values]
    ELSE MakeCommands(MakeCommand(h, Head(cs)).heap, Tail(cs),
                      Append(values, MakeCommand(h, Head(cs)).value))

PaintMade == MakeCommands(<<>>, PaintCommands, <<>>)
PaintHeap == PaintMade.heap
PaintValues == {PaintMade.values[i] : i \in DOMAIN PaintMade.values}

\* the buffers built from them by new_entry, of at most MaxCmds commands
WholeBuffers ==
    {EncodeAll(BlobDataNew, vs) :
        vs \in {s \in UNION {[1..m -> PaintValues] : m \in 0..MaxCmds} :
                   OwnedOnce(s)}}

\* a buffer that lost its last byte on the way, and one that lost them all
Truncated(buffer) == SubSeq(buffer, 1, Len(buffer) - 1)

\* the buffers handed to add: whole ones and truncated ones
PaintBuffers == WholeBuffers \cup {Truncated(b) : b \in WholeBuffers}

\* polygon.fill of the geometry the producer encodes (clip_path.rs)
SourceFills == {"Evenodd", "Nonzero"}

\* BlobImageParams with its descriptor's rect and its dirty rect
PaintParams(key, tile, format, rect, dirty_rect) ==
    [request |-> BlobImageRequest(key, tile), format |-> format,
     rect |-> rect, dirty_rect |-> dirty_rect]

\* rasterize_blob panicked
PaintPanic(params, cause) ==
    [kind |-> "panicked", cause |-> cause, request |-> params.request,
     rasterized_rect |-> Box2D(0, 0, 0, 0), pixels |-> {}]

\* (request.request, Ok(RasterizedBlobImage { rasterized_rect, data }))
PaintOk(params, rasterized_rect, pm) ==
    [kind |-> "ok", cause |-> "none", request |-> params.request,
     rasterized_rect |-> rasterized_rect, pixels |-> pm.pixels]

\* one call of process_blob, as the history keeps it
Drawn(source, o) ==
    [kind |-> o.kind, source |-> source, bounds |-> o.bounds,
     points |-> o.points, rule |-> o.rule, pixels |-> o.pixels]

InitPaint ==
    /\ heap = PaintHeap
    /\ blob_commands = [k \in Keys |-> <<>>]
    /\ committed = [k \in Keys |-> <<>>]
    /\ last = NoCall
    /\ lock = <<>>
    /\ poisoned = FALSE
    /\ pc = [t \in {Caller} |-> "idle"]
    /\ local = [t \in {Caller} |-> NoLocal]
    /\ acquired = <<>>
    /\ PaintIdle
    /\ OwnersIdle
    /\ CodecIdle
    /\ BatchIdle
    /\ HandlesIdle

\* the producer has encoded geometry of some fill rule, and add is called
\* with the buffer
PaintAdd ==
    /\ pc[Caller] = "idle" /\ request = <<>>
    /\ blob_commands["k1"] = <<>>
    /\ MutexAvailable(Caller) /\ ~poisoned
    /\ \E data \in PaintBuffers, visible_rect \in PaintTargets,
          fill \in SourceFills :
          /\ blob_commands' =
                insert(blob_commands, "k1", BlobCommand(data, visible_rect, 16))
          /\ committed' =
                [committed EXCEPT !["k1"] =
                    <<BlobCommand(data, visible_rect, 16)>>]
          /\ source_fill' = fill
    /\ UNCHANGED <<heap, last, lock, poisoned, pc, local, acquired,
                   request, pixmap, drawn, result, diagnostic,
                   codecVars, batchVars, handleVars, ownerVars>>

\* rasterize_blob, lines 281-288: the format is matched, the pixmap is
\* made, the guard is taken, the map is indexed and the iterator is made
PaintStart ==
    /\ pc[Caller] = "idle" /\ request = <<>>
    /\ blob_commands["k1"] # <<>>
    /\ MutexAvailable(Caller) /\ ~poisoned
    /\ \E key \in Keys, format \in Formats,
          rect \in PaintTargets, dirty_rect \in DirtyRects :
          /\ request' = <<PaintParams(key, 0, format, rect, dirty_rect)>>
          /\ IF format # "RGBA8"
             THEN /\ result' = <<PaintPanic(request'[1], "format")>>
                  /\ pc' = [pc EXCEPT ![Caller] = "panicked"]
                  /\ UNCHANGED <<pixmap, lock, poisoned, local>>
             ELSE IF PixmapNew(width(rect), height(rect)) = <<>>
             THEN /\ result' = <<PaintPanic(request'[1], "pixmap")>>
                  /\ pc' = [pc EXCEPT ![Caller] = "panicked"]
                  /\ UNCHANGED <<pixmap, lock, poisoned, local>>
             ELSE IF blob_commands[key] = <<>>
             THEN /\ result' = <<PaintPanic(request'[1], "missing")>>
                  /\ pc' = [pc EXCEPT ![Caller] = "panicked"]
                  /\ pixmap' = PixmapNew(width(rect), height(rect))
                  /\ poisoned' = TRUE
                  /\ UNCHANGED <<lock, local>>
             ELSE /\ result' = <<>>
                  /\ pc' = [pc EXCEPT ![Caller] = "raster_loop"]
                  /\ pixmap' = PixmapNew(width(rect), height(rect))
                  /\ lock' = <<Caller>>
                  /\ poisoned' = poisoned
                  /\ local' = [local EXCEPT ![Caller] =
                                  [NoLocal EXCEPT
                                      !.key = key,
                                      !.seen = blob_commands[key],
                                      !.snap = committed[key],
                                      !.iter = from_raw(blob_commands[key][1].data)]]
    /\ UNCHANGED <<heap, blob_commands, last, committed, acquired,
                   drawn, source_fill, diagnostic,
                   codecVars, batchVars, handleVars, ownerVars>>

\* what one turn of the loop of rasterize_blob can do, r being what
\* next() returned: the loop ends, or the command is painted or the
\* painting panics
LoopTurns(r) ==
    IF r.panic \/ r.item = <<>>
    THEN {PaintPanicked("none", Box2D(0, 0, 0, 0), <<>>)}
    ELSE process_blob(pixmap[1],
                      [View(heap, r.item[1]) EXCEPT
                          !.bounds = PaintBounds(@, request[1].dirty_rect)])

\* rasterize_blob, lines 293-300: one turn of the loop.  A panic of
\* next() or of process_blob unwinds with the guard held and poisons the
\* Mutex.
PaintNext ==
    /\ pc[Caller] = "raster_loop"
    /\ \E r \in {next(local[Caller].iter)} :
       \E o \in LoopTurns(r) :
          IF r.panic \/ (r.item # <<>> /\ o.panic)
          THEN /\ result' = <<PaintPanic(request[1],
                                         IF r.panic THEN "decode"
                                         ELSE IF o.kind = "FillRect" THEN "rect"
                                         ELSE "path")>>
               /\ pc' = [pc EXCEPT ![Caller] = "panicked"]
               /\ lock' = <<>>
               /\ poisoned' = TRUE
               /\ UNCHANGED <<local, pixmap, drawn>>
          ELSE IF r.item = <<>>
          THEN /\ pc' = [pc EXCEPT ![Caller] = "raster_finish"]
               /\ UNCHANGED <<result, lock, poisoned, local, pixmap, drawn>>
          ELSE /\ local' = [local EXCEPT ![Caller].iter = r.it]
               /\ pixmap' = <<[pixmap[1] EXCEPT !.pixels = @ \cup o.pixels]>>
               /\ drawn' = Append(drawn, Drawn(r.item[1].bounds, o))
               /\ UNCHANGED <<result, lock, poisoned, pc>>
    /\ UNCHANGED <<heap, blob_commands, last, committed, acquired,
                   request, source_fill, diagnostic,
                   codecVars, batchVars, handleVars, ownerVars>>

\* what lines 302-315 can do: the block is compiled in or not
\* (debug_assertions), SERVO_BLOB_OUTPUT_DIR is set or not, the file is
\* written or save_png returns an error; count is RASTERIZED_BLOB_COUNT
\* afterwards
Diagnostic(debug, out, written) ==
    [debug |-> debug, out |-> out, written |-> written,
     count |-> IF out THEN 1 ELSE 0]

Diagnostics ==
    {Diagnostic(FALSE, FALSE, FALSE), Diagnostic(TRUE, FALSE, FALSE),
     Diagnostic(TRUE, TRUE, TRUE), Diagnostic(TRUE, TRUE, FALSE)}

\* save_png that loses the pixels when the file cannot be written
save_png_losing(pm, written) ==
    IF written THEN pm ELSE [pm EXCEPT !.pixels = {}]

\* let _ = pixmap.save_png(path), line 312: save_png borrows the pixmap
\* and its Result is thrown away; the pixmap afterwards
save_png(pm, written) == pm

\* rasterize_blob, lines 302-326: the debug output, then the rasterized
\* rect is computed, the result is returned and the guard is dropped
PaintFinish ==
    /\ pc[Caller] = "raster_finish"
    /\ \E d \in Diagnostics :
       \E pm \in {IF d.out THEN save_png(pixmap[1], d.written) ELSE pixmap[1]} :
          /\ diagnostic' = <<d>>
          /\ pixmap' = <<pm>>
          /\ result' = <<PaintOk(request[1],
                                 RasterizedRect(request[1].rect,
                                                request[1].dirty_rect),
                                 pm)>>
    /\ lock' = <<>>
    /\ pc' = [pc EXCEPT ![Caller] = "idle"]
    /\ local' = [local EXCEPT ![Caller] = NoLocal]
    /\ UNCHANGED <<heap, blob_commands, last, poisoned, committed, acquired,
                   request, drawn, source_fill,
                   codecVars, batchVars, handleVars, ownerVars>>

NextPaint ==
    \/ PaintAdd
    \/ PaintStart
    \/ PaintNext
    \/ PaintFinish

SpecPaint == InitPaint /\ [][NextPaint]_vars

----------------------------------------------------------------------------
(* An update, then a request for the id *)

\* the entries update is called on
EmptiedRegistries ==
    {insert([k \in Keys |-> <<>>], "k1", BlobCommand(data, visible_rect, 16)) :
        data \in InputBuffers \ {BlobDataNew}, visible_rect \in Rects}

\* add was called for k1
InitEmptied ==
    /\ heap = ProducerHeap
    /\ blob_commands \in EmptiedRegistries
    /\ committed = blob_commands
    /\ last = NoCall
    /\ lock = <<>>
    /\ poisoned = FALSE
    /\ pc = [t \in {Caller} |-> "idle"]
    /\ local = [t \in {Caller} |-> NoLocal]
    /\ acquired = <<>>
    /\ PaintIdle
    /\ OwnersIdle
    /\ CodecIdle
    /\ BatchIdle
    /\ HandlesIdle

\* update is called before the request is made
UpdateBeforeRequest ==
    /\ request = <<>>
    /\ update

NextEmptied ==
    \/ UpdateBeforeRequest
    \/ PaintStart
    \/ PaintNext
    \/ PaintFinish

SpecEmptied == InitEmptied /\ [][NextEmptied]_vars

----------------------------------------------------------------------------
(* The codec as a state machine: one buffer is built, taken, and iterated *)

\* trailing cells behind the declared entries: none, or one stale entry
Pads == {<<>>, CommandToBytes(CommandValue(TagFillRect, UninitCell, UninitCell, RectC))}

InitCodec ==
    /\ heap = <<>>
    /\ blob = <<>>
    /\ phase = "none"
    /\ cmds = <<>>
    /\ ret = <<>>
    /\ prev = <<>>
    /\ iter = <<>>
    /\ yielded = <<>>
    /\ itDone = FALSE
    /\ maxRead = 0
    /\ entering = <<>>
    /\ replaced = <<>>
    /\ readers = <<>>
    /\ RegistryIdle

\* BlobData::new()
New ==
    /\ phase # "appending"
    /\ blob' = BlobDataNew
    /\ phase' = "building"
    /\ cmds' = <<>>
    /\ ret' = <<>>
    /\ prev' = <<>>
    /\ iter' = <<>>
    /\ yielded' = <<>>
    /\ itDone' = FALSE
    /\ maxRead' = 0
    /\ entering' = <<>>
    /\ replaced' = <<>>
    /\ UNCHANGED <<heap, readers, blob_commands, last, threadVars,
                   batchVars, handleVars, paintVars, ownerVars>>

\* BlobData::new_with_capacity(capacity): the capacity is reserved, the
\* length of the Vec is the header's
NewWithCapacity ==
    \E capacity \in 0..MaxCmds :
        /\ phase # "appending"
        /\ blob' = BlobDataNew
        /\ phase' = "building"
        /\ cmds' = <<>>
        /\ ret' = <<>>
        /\ prev' = <<>>
        /\ iter' = <<>>
        /\ yielded' = <<>>
        /\ itDone' = FALSE
        /\ maxRead' = 0
        /\ entering' = <<>>
        /\ replaced' = <<>>
        /\ UNCHANGED <<heap, readers, blob_commands, last, threadVars,
                       batchVars, handleVars, paintVars, ownerVars>>

\* a new_entry call between its two writes: the buffer it was called on,
\* the command value it was handed, and what the command means
Entering(self, data, c) == [self |-> self, data |-> data, c |-> c]

\* the producer builds command c and calls new_entry(c); new_entry,
\* lines 78-83: the header is read and the storage is grown
NewEntry ==
    \E c \in Commands :
        /\ phase = "building"
        /\ Len(cmds) < MaxCmds
        /\ c.kind = "DrawPolygon" => Len(heap) < MaxHeap
        /\ LET made == MakeCommand(heap, c)
           IN /\ blob' = new_entry_extended(blob, made.value)
              /\ heap' = made.heap
              /\ entering' = <<Entering(blob, made.value, c)>>
        /\ phase' = "appending"
        /\ replaced' = <<>>
        /\ UNCHANGED <<cmds, ret, prev, iter, yielded, itDone, maxRead, readers>>
        /\ UNCHANGED <<blob_commands, last, threadVars, batchVars, handleVars,
                       paintVars, ownerVars>>

\* new_entry, lines 84-85: the header is rewritten, the index is returned
\* and the command that was moved in is dropped
NewEntryWriteHeader ==
    /\ phase = "appending"
    /\ LET r == new_entry(entering[1].self, entering[1].data)
       IN /\ blob' = r.self
          /\ ret' = <<r.ret>>
    /\ heap' = DropCommand(heap, entering[1].data)
    /\ prev' = Views(heap, Decode(entering[1].self).items)
    /\ cmds' = Append(cmds, entering[1].c)
    /\ phase' = "building"
    /\ entering' = <<>>
    /\ UNCHANGED <<iter, yielded, itDone, maxRead, replaced, readers>>
    /\ UNCHANGED <<blob_commands, last, threadVars, batchVars, handleVars,
                   paintVars, ownerVars>>

\* an update_entry call as the history keeps it: the index and the command
\* it was handed, the buffer it was called on, and whether it panicked
Replaced(index, c, self, panicked) ==
    [index |-> index, c |-> c, self |-> self, panicked |-> panicked]

\* the producer builds command c and calls update_entry(index, c); the
\* slice index panics when the entry does not exist
UpdateEntry ==
    \E c \in Commands, index \in 0..MaxCmds :
        /\ phase = "building"
        /\ c.kind = "DrawPolygon" => Len(heap) < MaxHeap
        /\ LET made == MakeCommand(heap, c)
           IN IF update_entry_in_range(blob, index)
              THEN /\ blob' = update_entry(blob, index, made.value)
                   /\ heap' = DropCommand(made.heap, made.value)
                   /\ cmds' = [cmds EXCEPT ![index + 1] = c]
                   /\ phase' = phase
                   /\ replaced' = <<Replaced(index, c, blob, FALSE)>>
              ELSE /\ blob' = blob
                   /\ heap' = DropCommand(made.heap, made.value)
                   /\ cmds' = cmds
                   /\ phase' = "panicked"
                   /\ replaced' = <<Replaced(index, c, blob, TRUE)>>
        /\ ret' = <<>>
        /\ UNCHANGED <<prev, iter, yielded, itDone, maxRead, entering, readers>>
        /\ UNCHANGED <<blob_commands, last, threadVars, batchVars, handleVars,
                       paintVars, ownerVars>>

\* BlobData::take(): the buffer is final
Take ==
    /\ phase = "building"
    /\ phase' = "taken"
    /\ replaced' = <<>>
    /\ UNCHANGED <<heap, blob, cmds, ret, prev, iter, yielded, itDone, maxRead,
                   entering, readers>>
    /\ UNCHANGED <<blob_commands, last, threadVars, batchVars, handleVars,
                   paintVars, ownerVars>>

\* BlobDataIterator::from_raw over the taken bytes, or over a longer slice
\* that starts with them
IterFromRaw ==
    \E pad \in Pads :
        /\ phase = "taken"
        /\ iter' = <<from_raw(blob \o pad)>>
        /\ yielded' = <<>>
        /\ itDone' = FALSE
        /\ maxRead' = 0
        /\ UNCHANGED <<heap, blob, phase, cmds, ret, prev, entering, replaced,
                       readers>>
        /\ UNCHANGED <<blob_commands, last, threadVars, batchVars, handleVars,
                       paintVars, ownerVars>>

\* one call of next() on the iterator
IterNext ==
    /\ iter # <<>>
    /\ LET r == next(iter[1])
       IN /\ ~r.panic
          /\ iter' = <<r.it>>
          /\ yielded' = yielded \o r.item
          /\ itDone' = (r.item = <<>>)
          /\ maxRead' = Max2(maxRead, r.read)
    /\ UNCHANGED <<heap, blob, phase, cmds, ret, prev, entering, replaced,
                   readers>>
    /\ UNCHANGED <<blob_commands, last, threadVars, batchVars, handleVars,
                   paintVars, ownerVars>>

NextCodec ==
    \/ New
    \/ NewWithCapacity
    \/ NewEntry
    \/ NewEntryWriteHeader
    \/ UpdateEntry
    \/ Take
    \/ IterFromRaw
    \/ IterNext

SpecCodec == InitCodec /\ [][NextCodec]_vars

----------------------------------------------------------------------------
(* Several iterators over one finished buffer *)

Readers == {"r1", "r2"}

\* the command sequences the producer encodes
ProducerSequences ==
    {s \in UNION {[1..m -> ProducerValues] : m \in 0..MaxCmds} : OwnedOnce(s)}

\* most calls of next() that are followed after an iterator has ended
MaxEnded == 2

\* a reader: its BlobDataIterator, the commands next() has returned to it,
\* how often next() has returned None, whether next() panicked, and
\* <<what an earlier iterator of this reader yielded until it ended>>
Reader(it, got, ended, panicked, first) ==
    [it |-> it, yielded |-> got, ended |-> ended, panicked |-> panicked,
     first |-> first]

\* the producer has built and taken a buffer; it may lie in a longer slice
InitDecode ==
    \E vs \in ProducerSequences, pad \in Pads :
        /\ heap = ProducerHeap
        /\ blob = EncodeAll(BlobDataNew, vs) \o pad
        /\ phase = "taken"
        /\ cmds = Views(ProducerHeap, vs)
        /\ ret = <<>>
        /\ prev = <<>>
        /\ iter = <<>>
        /\ yielded = <<>>
        /\ itDone = FALSE
        /\ maxRead = 0
        /\ entering = <<>>
        /\ replaced = <<>>
        /\ readers = [r \in Readers |-> <<>>]
        /\ RegistryIdle

\* reader r makes a fresh iterator over the buffer: BlobDataIterator::from_raw
ReaderFromRaw(r) ==
    /\ readers' =
          [readers EXCEPT ![r] =
              <<Reader(from_raw(blob), <<>>, 0, FALSE,
                       IF readers[r] # <<>> /\ readers[r][1].ended > 0
                       THEN <<readers[r][1].yielded>>
                       ELSE IF readers[r] # <<>> THEN readers[r][1].first
                       ELSE <<>>)>>]
    /\ UNCHANGED <<heap, blob, phase, cmds, ret, prev, iter, yielded, itDone,
                   maxRead, entering, replaced>>
    /\ UNCHANGED <<blob_commands, last, threadVars, batchVars, handleVars,
                   paintVars, ownerVars>>

\* reader r calls next() on its iterator and drops the command it got at
\* the end of its loop body
ReaderNext(r) ==
    /\ readers[r] # <<>>
    /\ ~readers[r][1].panicked
    /\ readers[r][1].ended < MaxEnded
    /\ LET x == readers[r][1]
           n == next(x.it)
       IN /\ readers' =
                [readers EXCEPT ![r] =
                    <<Reader(n.it, x.yielded \o n.item,
                             IF n.item = <<>> /\ ~n.panic
                             THEN x.ended + 1 ELSE x.ended,
                             n.panic, x.first)>>]
          /\ heap' = IF n.item = <<>> THEN heap
                     ELSE DropCommand(heap, n.item[1])
    /\ UNCHANGED <<blob, phase, cmds, ret, prev, iter, yielded, itDone,
                   maxRead, entering, replaced>>
    /\ UNCHANGED <<blob_commands, last, threadVars, batchVars, handleVars,
                   paintVars, ownerVars>>

NextDecode ==
    \/ \E r \in Readers : ReaderFromRaw(r)
    \/ \E r \in Readers : ReaderNext(r)

SpecDecode == InitDecode /\ [][NextDecode]_vars

----------------------------------------------------------------------------
(* Claims about the codec, checked under SpecCodec *)

\* C1: round trip.  A buffer built from a sequence of commands with
\* new_entry decodes, without a panic, to exactly those commands: same
\* order, same kind, same points, same bounds; and an iterator that has
\* run to its end has yielded exactly them.
C1_RoundTrip ==
    /\ phase \in {"building", "taken"} =>
          /\ ~Decode(blob).panic
          /\ Views(heap, Decode(blob).items) = cmds
    /\ (iter # <<>> /\ itDone) => Views(heap, yielded) = cmds

\* C1 witness: an iterator has run to the end of a two-command buffer that
\* holds a FillRect and a three-point DrawPolygon.
C1_Witness ==
    /\ iter # <<>>
    /\ itDone
    /\ Len(yielded) = 2
    /\ \E i, j \in 1..2 :
          /\ cmds[i].kind = "FillRect"
          /\ cmds[j].kind = "DrawPolygon"
          /\ Len(cmds[j].points) = 3

\* C2: append monotonicity.  new_entry(c) on a buffer of n commands returns
\* n, and the buffer then decodes to the previous n commands followed by c.
C2_AppendMonotone ==
    ret # <<>> =>
        /\ ret[1] = Len(prev)
        /\ Views(heap, Decode(blob).items) = Append(prev, cmds[Len(cmds)])

\* C2 witness: a three-point DrawPolygon was appended to a buffer that
\* already held one command, and index 1 was returned.
C2_Witness ==
    /\ ret = <<1>>
    /\ Len(prev) = 1
    /\ cmds[2].kind = "DrawPolygon"
    /\ Len(cmds[2].points) = 3

\* C3: command-buffer invariant.  The header count equals the number of
\* successful appends whatever new / new_entry / update_entry calls were
\* made; a decoder yields no more commands than the header count and reads
\* no cell behind header + count entries, also when the slice is longer.
C3_HeaderCount ==
    /\ phase # "none" => HeaderFromBytes(blob).length = Len(cmds)
    /\ iter # <<>> =>
          LET count == HeaderFromBytes(iter[1].data).length
          IN /\ Len(yielded) <= count
             /\ maxRead <= SizeOfHeader + count * SizeOfCommand

\* C3 witness: an iterator over a slice longer than header + count entries
\* has run to its end after yielding a command.
C3_Witness ==
    /\ iter # <<>>
    /\ itDone
    /\ Len(yielded) >= 1
    /\ Len(iter[1].data) >
          SizeOfHeader + HeaderFromBytes(iter[1].data).length * SizeOfCommand

----------------------------------------------------------------------------
(* Claims about add / update / delete, checked under SpecHandler *)

\* pixel (x, y) lies in box b
InBox(b, x, y) ==
    /\ b.min[1] <= x /\ x + 1 <= b.max[1]
    /\ b.min[2] <= y /\ y + 1 <= b.max[2]

\* D contains R1 intersect R2, as sets of pixels
DirtyCovers(d, r1, r2) ==
    \/ d.kind = "All"
    \/ \A x \in 0..4, y \in 0..4 :
          (InBox(r1, x, y) /\ InBox(r2, x, y)) => InBox(d.rect, x, y)

\* the commands the entry of key k decodes to
StoredCommands(k) == Views(heap, Decode(blob_commands[k][1].data).items)

\* C4: update retention rule.  For an id with old visible rect R1,
\* update(id, C, R2, D) leaves a buffer that decodes to all of C, in order,
\* when D contains R1 intersect R2, and to nothing otherwise, whatever the
\* bounds of the commands of C are.
C4_UpdateRetention ==
    (last.op = "update" /\ last.before[last.key] # <<>>) =>
        /\ blob_commands[last.key] # <<>>
        /\ ~last.panicked
        /\ LET stored == Decode(blob_commands[last.key][1].data)
           IN /\ ~stored.panic
              /\ Views(heap, stored.items) =
                    IF DirtyCovers(last.dirty_rect,
                                   last.before[last.key][1].visible_rect,
                                   last.visible_rect)
                    THEN Views(heap, Decode(last.data).items)
                    ELSE <<>>

\* C4 witness: an update with a partial dirty rect kept both commands of
\* C, one of which has bounds the dirty rect does not contain.
C4_Witness ==
    /\ last.op = "update"
    /\ last.before[last.key] # <<>>
    /\ last.dirty_rect.kind = "Partial"
    /\ Len(StoredCommands(last.key)) = 2
    /\ \E i \in 1..2 :
          ~contains_box(last.dirty_rect.rect, StoredCommands(last.key)[i].bounds)

\* C5: for an id that is present, update ends with the stored visible rect
\* equal to the new one, whether or not commands were kept, leaves the
\* entry's tiling hint as it was, and leaves every other entry as it was.
C5_UpdateFrame ==
    (last.op = "update" /\ last.before[last.key] # <<>>) =>
        /\ blob_commands[last.key] # <<>>
        /\ blob_commands[last.key][1].visible_rect = last.visible_rect
        /\ blob_commands[last.key][1].tile_size =
              last.before[last.key][1].tile_size
        /\ \A k \in Keys \ {last.key} : blob_commands[k] = last.before[k]

\* C5 witness: an update dropped the commands of C, changed the visible
\* rect, and another id has an entry.
C5_Witness ==
    /\ last.op = "update"
    /\ last.before[last.key] # <<>>
    /\ Decode(last.data).items # <<>>
    /\ StoredCommands(last.key) = <<>>
    /\ last.before[last.key][1].visible_rect # last.visible_rect
    /\ \E k \in Keys \ {last.key} : blob_commands[k] # <<>>

\* C6: update on an id that is not in the registry changes nothing: no
\* entry is made, no entry is changed, and the call does not panic.
C6_UpdateAbsent ==
    (last.op = "update" /\ last.before[last.key] = <<>>) =>
        /\ blob_commands = last.before
        /\ ~last.panicked

\* C6 witness: update was called with a non-empty buffer on an absent id
\* while another id has an entry.
C6_Witness ==
    /\ last.op = "update"
    /\ last.before[last.key] = <<>>
    /\ Decode(last.data).items # <<>>
    /\ \E k \in Keys \ {last.key} : blob_commands[k] # <<>>

\* C7: add inserts or overwrites: afterwards the entry of the id is
\* exactly the buffer, visible rect and tiling hint passed, whatever was
\* stored, and every other entry is as it was.
C7_AddOverwrites ==
    last.op = "add" =>
        /\ ~last.panicked
        /\ blob_commands =
              [k \in Keys |->
                  IF k = last.key
                  THEN <<BlobCommand(last.data, last.visible_rect, last.tile_size)>>
                  ELSE last.before[k]]

\* C7 witness: add replaced an entry that differed in buffer, visible rect
\* and tiling hint, while another id has an entry.
C7_Witness ==
    /\ last.op = "add"
    /\ last.before[last.key] # <<>>
    /\ last.before[last.key][1].data # last.data
    /\ last.before[last.key][1].visible_rect # last.visible_rect
    /\ last.before[last.key][1].tile_size # last.tile_size
    /\ \E k \in Keys \ {last.key} : blob_commands[k] # <<>>

\* C8: delete removes the entry of the id and nothing else; on an absent id
\* it changes nothing and does not panic, so a second delete of the same
\* id leaves what the first one left.
C8_DeleteIdempotent ==
    last.op = "delete" =>
        /\ ~last.panicked
        /\ blob_commands =
              [k \in Keys |-> IF k = last.key THEN <<>> ELSE last.before[k]]
        /\ (last.before[last.key] = <<>> => blob_commands = last.before)
        /\ remove(blob_commands, last.key) = blob_commands

\* C8 witness: delete was called on an absent id while another id has an
\* entry.
C8_Witness ==
    /\ last.op = "delete"
    /\ last.before[last.key] = <<>>
    /\ \E k \in Keys \ {last.key} : blob_commands[k] # <<>>

----------------------------------------------------------------------------
(* Claims about the registry under interleaving, checked under Spec *)

\* C9: registry invariant.  Whatever add / update / delete calls the
\* handlers have interleaved, a lookup by id (get_mut in update, the index
\* in rasterize_blob) finds nothing or the entry that the last committed
\* add or update of that id left, with no later delete; it never finds an
\* entry of which only the buffer or only the visible rect was written.
\* The entry stays the committed one for as long as the thread uses it.
C9_LookupCommitted ==
    \A t \in Threads :
        /\ pc[t] # "idle" => local[t].seen = local[t].snap
        /\ pc[t] \notin {"idle", "panicked"} =>
              local[t].seen = committed[local[t].key]

\* C9 witness: a rasterizer worker has looked up an entry that an update
\* had rebuilt (its buffer is empty, its visible rect is the third one),
\* and the map holds it unchanged.
C9_Witness ==
    \E w \in Workers :
        /\ pc[w] = "raster_finish"
        /\ local[w].seen # <<>>
        /\ Decode(local[w].seen[1].data).items = <<>>
        /\ local[w].seen[1].visible_rect = RectC
        /\ local[w].seen[1].tile_size = 32
        /\ blob_commands[local[w].key] = local[w].seen

\* C10: no torn render.  The commands a rasterize request has painted are
\* a prefix of, and at its end exactly, the commands of the buffer of the
\* one committed entry that was in the map when the request took the lock.
C10_NoTornRender ==
    \A w \in Workers :
        pc[w] \in {"raster_loop", "raster_finish"} =>
            /\ local[w].snap # <<>>
            /\ LET whole == Views(heap, Decode(local[w].snap[1].data).items)
               IN /\ Len(local[w].painted) <= Len(whole)
                  /\ local[w].painted = SubSeq(whole, 1, Len(local[w].painted))
                  /\ pc[w] = "raster_finish" => local[w].painted = whole

\* C10 witness: a request has painted the polygon of an entry to its end
\* while the entry of the other id has been emptied by an update.
C10_Witness ==
    \E w \in Workers :
        /\ pc[w] = "raster_finish"
        /\ Len(local[w].painted) = 1
        /\ local[w].painted[1].kind = "DrawPolygon"
        /\ \E k \in Keys \ {local[w].key} :
              /\ blob_commands[k] # <<>>
              /\ Decode(blob_commands[k][1].data).items = <<>>

\* C11: the registry lock is never held while a request is painted:
\* no worker that is in the loop that decodes and paints holds the guard
\* (so no add / update / delete and no other lookup waits for painting).
C11_LockFreeWhilePainting ==
    \A w \in Workers : pc[w] = "raster_loop" => lock # <<w>>

----------------------------------------------------------------------------
(* Claims about rasterize on a batch, checked under SpecRaster *)

\* what the request at index i of the batch paints when it succeeds
NormalResult(i) ==
    BlobResult(requests[i],
               Views(heap, Decode(blob_commands[requests[i].request.key][1].data).items))

\* request i of the batch asks for an id that is in the registry
KnownId(i) == blob_commands[requests[i].request.key] # <<>>

\* C12: unknown identifier.  A rasterize call on a batch of RGBA8 requests
\* of which one asks for an id that is not in the registry does not crash:
\* it returns, and every request whose id is known has its normal result.
C12_UnknownIdIsError ==
    \A n \in DOMAIN outcomes :
        (/\ \E i \in DOMAIN requests : ~KnownId(i)
         /\ \A i \in DOMAIN requests : requests[i].format = "RGBA8") =>
            /\ outcomes[n].kind = "returned"
            /\ \A i \in DOMAIN requests :
                  KnownId(i) => outcomes[n].results[i] = NormalResult(i)

\* C13: unsupported pixel format.  A rasterize call on a batch of requests
\* for known ids of which one has a format other than RGBA8 is not
\* aborted: it returns, and the RGBA8 requests have their normal results.
C13_BadFormatIsError ==
    \A n \in DOMAIN outcomes :
        (/\ \E i \in DOMAIN requests : requests[i].format # "RGBA8"
         /\ \A i \in DOMAIN requests : KnownId(i)) =>
            /\ outcomes[n].kind = "returned"
            /\ \A i \in DOMAIN requests :
                  requests[i].format = "RGBA8" =>
                      outcomes[n].results[i] = NormalResult(i)

\* C14: rasterize gives exactly one result per request of the batch, each
\* with the identity of its request, in sequential and in parallel mode.
C14_OneResultPerRequest ==
    \A n \in DOMAIN outcomes :
        /\ Len(outcomes[n].results) = Len(requests)
        /\ \A i \in DOMAIN requests :
              \E j \in DOMAIN outcomes[n].results :
                  /\ outcomes[n].results[j].request = requests[i].request
                  /\ \A l \in DOMAIN outcomes[n].results :
                        outcomes[n].results[l].request = requests[i].request
                            => l = j

\* the results of a call, as a set
ResultSet(o) == {o.results[i] : i \in DOMAIN o.results}

\* C15: parallel / sequential equivalence.  On the same registry and the
\* same batch, the call with parallelism enabled and the call with it
\* disabled end the same way, with the same set of results.
C15_ParallelEqualsSequential ==
    Len(outcomes) = 2 =>
        /\ outcomes[1].multithreading # outcomes[2].multithreading
        /\ outcomes[1].kind = outcomes[2].kind
        /\ ResultSet(outcomes[1]) = ResultSet(outcomes[2])

\* C15 witness: both calls returned two results, one of which painted the
\* two commands of its buffer.
C15_Witness ==
    /\ Len(outcomes) = 2
    /\ outcomes[1].kind = "returned"
    /\ outcomes[2].kind = "returned"
    /\ Len(outcomes[2].results) = 2
    /\ \E r \in ResultSet(outcomes[1]) : Len(r.painted) = 2
    /\ \E r \in ResultSet(outcomes[1]) : Len(r.painted) = 1

\* C16: with parallelism disabled the requests are processed in input
\* order, one at a time, by the calling thread: a request is started only
\* when every request before it is done, so no request takes the lock
\* before the one before it has finished; the results are in input order.
C16_SequentialInOrder ==
    /\ ~enable_multithreading =>
          /\ \A i \in DOMAIN slots :
                slots[i].state # "pending" =>
                    /\ slots[i].by = Caller
                    /\ \A j \in 1..(i - 1) : slots[j].state = "done"
          /\ \A t \in PoolWorkers : pc[t] = "idle"
          /\ lock # <<>> =>
                /\ lock = <<Caller>>
                /\ slots[local[Caller].req].state = "running"
    /\ \A n \in DOMAIN outcomes :
          (~outcomes[n].multithreading /\ outcomes[n].kind = "returned") =>
              \A i \in DOMAIN requests :
                  outcomes[n].results[i].request = requests[i].request

\* C16 witness: the calling thread holds the lock for the second request
\* while the first is done.
C16_Witness ==
    /\ ~enable_multithreading
    /\ call = "running"
    /\ Len(slots) = 2
    /\ slots[1].state = "done"
    /\ slots[2].state = "running"
    /\ lock = <<Caller>>
    /\ pc[Caller] = "raster_loop"

\* C17: with parallelism enabled every request is processed by exactly
\* one thread of the pool exactly once, and rasterize ends only when every
\* request has ended and every thread of the pool is idle.
C17_ParallelExactlyOnce ==
    enable_multithreading =>
        /\ \A i \in DOMAIN slots :
              /\ slots[i].runs = (IF slots[i].state = "pending" THEN 0 ELSE 1)
              /\ slots[i].state # "pending" => slots[i].by \in PoolWorkers
              /\ slots[i].state = "running" =>
                    /\ pc[slots[i].by] # "idle"
                    /\ local[slots[i].by].req = i
        /\ (call = "none" /\ outcomes # <<>>) =>
              /\ \A i \in DOMAIN slots : slots[i].state \in {"done", "panicked"}
              /\ \A t \in RasterThreads : pc[t] = "idle"

\* C17 witness: a parallel call has ended with two requests done, each by
\* another thread of the pool.
C17_Witness ==
    /\ enable_multithreading
    /\ call = "none"
    /\ outcomes # <<>>
    /\ Len(slots) = 2
    /\ slots[1].state = "done"
    /\ slots[2].state = "done"
    /\ slots[1].by # slots[2].by

----------------------------------------------------------------------------
(* Claims about handles, checked under SpecHandles *)

\* C18: the parallelism toggle is process-wide and read at rasterization
\* time: once enable_multithreading(b) has been called on a handler, every
\* rasterize call runs in mode b, whichever rasterizer it is made on.
C18_ToggleIsProcessWide ==
    (ran # <<>> /\ toggled # <<>>) => ran[1].multithreading = toggled[1]

\* C19: handles share one registry.  What an add, update or delete
\* through any handler left for its key is what a lookup of that key
\* finds through every handler and every rasterizer there is.
C19_HandlesShareRegistry ==
    wrote # <<>> =>
        \A h \in DOMAIN handles : MapOf(h)[wrote[1].key] = wrote[1].entry

\* C19 witness: an add through a create_similar clone, while the original
\* handler and a rasterizer made before the add exist.
C19_Witness ==
    /\ wrote # <<>>
    /\ wrote[1].op = "add"
    /\ wrote[1].via # 1
    /\ RasterizersOf(handles) # {}
    /\ Decode(wrote[1].entry[1].data).items # <<>>
    /\ MapOf(1)[wrote[1].key] = wrote[1].entry

\* the map after the first n update calls that took the guard, had they
\* been made one after the other
AfterUpdates(n) ==
    UpdatesInTurn(RaceRegistry, ProducerHeap, SubSeq(acquired, 1, n)).map

\* C20: two update calls made from two threads are put in one order by
\* the Mutex, and the one that took the guard last wins entirely.  Once
\* every call has returned the map is what the calls leave when made one
\* after the other in the order in which they took the guard; the entry
\* has the visible rect of the last call and a buffer whose commands are
\* those of that call's data or none, so nothing of the earlier call's
\* buffer; and at no time does an entry hold anything but what some prefix
\* of that order leaves or, while the thread that holds the guard is
\* between its two stores, that with the new buffer already stored.
C20_LastUpdateWins ==
    LET n == Len(acquired)
    IN /\ (\A h \in Handlers : pc[h] = "idle") =>
             /\ blob_commands = AfterUpdates(n)
             /\ \A i \in 1..n :
                   (/\ \A j \in (i + 1)..n : acquired[j].key # acquired[i].key
                    /\ blob_commands[acquired[i].key] # <<>>) =>
                       LET stored == blob_commands[acquired[i].key][1]
                       IN /\ stored.visible_rect = acquired[i].visible_rect
                          /\ Decode(stored.data).items \in
                                {<<>>, Decode(acquired[i].data).items}
       /\ \A k \in Keys :
             \/ \E i \in 0..n : blob_commands[k] = AfterUpdates(i)[k]
             \/ /\ n > 0
                /\ pc[acquired[n].by] = "update_store_rect"
                /\ acquired[n].key = k
                /\ lock = <<acquired[n].by>>
                /\ blob_commands[k] =
                      <<store_data(AfterUpdates(n - 1)[k][1],
                                   AfterUpdates(n)[k][1].data)>>

\* C20 witness: both threads have updated k1 and returned.  The first to
\* take the guard stored the polygon, the second the fill rect with
\* another visible rect; the entry holds the fill rect alone and the
\* second call's visible rect.
C20_Witness ==
    /\ Len(acquired) = 2
    /\ \A h \in Handlers : pc[h] = "idle"
    /\ acquired[1].by # acquired[2].by
    /\ acquired[1].key = "k1" /\ acquired[2].key = "k1"
    /\ Decode(AfterUpdates(1)["k1"][1].data).items = <<MadePolygon.value>>
    /\ acquired[1].visible_rect # acquired[2].visible_rect
    /\ Decode(acquired[2].data).items = <<MadeFill.value>>
    /\ Decode(blob_commands["k1"][1].data).items = <<MadeFill.value>>
    /\ blob_commands["k1"][1].visible_rect = acquired[2].visible_rect


\* C21: a failing request does not damage the subsystem.  After a
\* rasterize request has failed, no later add, update or delete call of a
\* handler panics: each finds the registry lock usable and completes.
C21_FailedRequestLeavesLockUsable ==
    (\E w \in Workers : pc[w] = "panicked") =>
        \A h \in Handlers : pc[h] # "panicked"

\* the request that was rasterized, its entry and the buffer of the entry
TheRequest == request[1]
TheEntry == blob_commands[TheRequest.request.key][1]

\* rasterize_blob has ended for a request in RGBA8 on an id that is known
Rasterized ==
    /\ result # <<>>
    /\ TheRequest.format = "RGBA8"
    /\ blob_commands[TheRequest.request.key] # <<>>

\* a buffer shorter than its header, or than its header and the entries
\* the header declares
Malformed(buffer) ==
    \/ Len(buffer) < SizeOfHeader
    \/ Len(buffer) < SizeOfHeader + HeaderFromBytes(buffer).length * SizeOfCommand

\* the commands of a buffer that is not malformed
CommandsOf(buffer) == Views(heap, Decode(buffer).items)

\* a polygon without usable points
Degenerate(c) == c.kind = "DrawPolygon" /\ Len(c.points) <= 1

\* the unit squares of a rect, those of the pixmap, and a shift of them
CellsOf(b) == (b.min[1]..(b.max[1] - 1)) \X (b.min[2]..(b.max[2] - 1))
TileCells(T) == (0..(width(T) - 1)) \X (0..(height(T) - 1))
Shifted(cells, T) == {<<c[1] - T.min[1], c[2] - T.min[2]>> : c \in cells}

\* C22: a request on a truncated buffer ends with a MalformedCommandBuffer
\* error of its own, not with a panic.
C22_MalformedBufferIsError ==
    (Rasterized /\ Malformed(TheEntry.data)) =>
        (result[1].kind = "error" /\ result[1].cause = "MalformedCommandBuffer")

\* C23: a polygon with no point or one point is skipped: the request, all
\* of its buffer being dirty, succeeds, and its pixmap holds what the
\* other commands paint.
C23_DegeneratePolygonSkipped ==
    (/\ Rasterized
     /\ ~Malformed(TheEntry.data)
     /\ TheRequest.dirty_rect = DirtyAll
     /\ \E i \in DOMAIN CommandsOf(TheEntry.data) :
           Degenerate(CommandsOf(TheEntry.data)[i])) =>
        /\ result[1].kind = "ok"
        /\ \A i \in DOMAIN drawn : Degenerate(drawn[i]) => drawn[i].pixels = {}

C25_ClippedToDirtyRect ==
    (/\ Rasterized /\ result[1].kind = "ok"
     /\ TheRequest.dirty_rect.kind = "Partial") =>
        LET T == TheRequest.rect
            D == Shifted(CellsOf(TheRequest.dirty_rect.rect), T)
        IN /\ CellsOf(result[1].rasterized_rect) \subseteq D
           /\ result[1].pixels \subseteq D

\* C26: after add(id, [FillRect with bounds B], visible rect B), the
\* request {id, target rect B, all dirty} succeeds, its rect covers all of
\* B and every pixel of its tile is painted.
C26_FullTileFill ==
    (/\ result # <<>>
     /\ TheRequest.request.key = "k1" /\ TheRequest.format = "RGBA8"
     /\ TheRequest.dirty_rect = DirtyAll
     /\ blob_commands["k1"][1].visible_rect = TheRequest.rect
     /\ ~Malformed(blob_commands["k1"][1].data)
     /\ CommandsOf(blob_commands["k1"][1].data)
           = <<FillRectCmd(TheRequest.rect)>>) =>
        /\ result[1].kind = "ok"
        /\ CellsOf(result[1].rasterized_rect) = TileCells(TheRequest.rect)
        /\ result[1].pixels = TileCells(TheRequest.rect)

\* C26 witness: the fill rect and the tile are the rect that is not at
\* the origin, and the four pixels of the tile are painted.
C26_Witness ==
    /\ result # <<>> /\ result[1].kind = "ok"
    /\ TheRequest.rect = RectB /\ TheRequest.dirty_rect = DirtyAll
    /\ TheEntry.visible_rect = RectB
    /\ ~Malformed(TheEntry.data)
    /\ CommandsOf(TheEntry.data) = <<FillRectCmd(RectB)>>
    /\ Cardinality(result[1].pixels) = 4

\* C27: a command of bounds B is painted with B, or with the part of B in
\* the dirty rect, moved by -T.min: in the frame of the target rect, at
\* the offset it has from the tile's origin.
C27_BoundsInTileFrame ==
    \A i \in DOMAIN drawn :
        LET T == TheRequest.rect
            B == drawn[i].source
            part == IF TheRequest.dirty_rect.kind = "All" THEN B
                    ELSE intersection_unchecked(B, TheRequest.dirty_rect.rect)
        IN drawn[i].bounds = translate(part, <<0 - T.min[1], 0 - T.min[2]>>)

\* C28: a command whose bounds do not meet the dirty rect does not fail
\* the batch: the request paints nothing for it or ends with an error of
\* its own.
C28_NoOverlapIsNotFatal ==
    (/\ Rasterized
     /\ ~Malformed(TheEntry.data)
     /\ TheRequest.dirty_rect.kind = "Partial"
     /\ \A i \in DOMAIN CommandsOf(TheEntry.data) :
           ~Degenerate(CommandsOf(TheEntry.data)[i])
     /\ \E i \in DOMAIN CommandsOf(TheEntry.data) :
           CellsOf(CommandsOf(TheEntry.data)[i].bounds)
               \cap CellsOf(TheRequest.dirty_rect.rect) = {}) =>
        /\ result[1].kind \in {"ok", "error"}
        /\ result[1].kind = "ok" =>
              \A i \in DOMAIN drawn :
                  CellsOf(drawn[i].source)
                      \cap CellsOf(TheRequest.dirty_rect.rect) = {}
                  => drawn[i].pixels = {}

\* the tiny-skia fill rule of a fill rule of the source geometry
FillRuleDeclared(declared) ==
    IF declared = "Evenodd" THEN "EvenOdd" ELSE "Winding"

\* C29: a polygon is filled with the fill rule of its source geometry:
\* even-odd when declared even-odd, nonzero when declared nonzero.
C29_FillRuleOfSource ==
    \A i \in DOMAIN drawn :
        drawn[i].kind = "DrawPolygon" =>
            /\ drawn[i].rule = FillRuleDeclared(source_fill)
            /\ drawn[i].pixels =
                  fill_path(pixmap[1], drawn[i].points,
                            FillRuleDeclared(source_fill))

\* C30: append is consistent at every step.  Between the two writes of
\* new_entry the storage has grown by the new entry and the header still
\* counts the n entries before it, so the buffer decodes to exactly the
\* n commands it held; after the header write it decodes to the n + 1
\* commands; and the header never counts more entries than are stored.
C30_AppendConsistentBetweenWrites ==
    /\ phase = "appending" =>
          /\ ~Decode(blob).panic
          /\ Views(heap, Decode(blob).items) = cmds
          /\ Len(blob) = SizeOfHeader + (Len(cmds) + 1) * SizeOfCommand
    /\ (phase = "building" /\ ret # <<>>) =>
          /\ ~Decode(blob).panic
          /\ Views(heap, Decode(blob).items) = cmds
          /\ Views(heap, Decode(blob).items) = Append(prev, cmds[Len(cmds)])
    /\ phase \in {"building", "appending", "taken"} =>
          SizeOfHeader + HeaderFromBytes(blob).length * SizeOfCommand <= Len(blob)

\* C30 witness: new_entry is between its two writes on a buffer of one
\* polygon: two entries are stored and the buffer decodes to the polygon.
C30_Witness ==
    /\ phase = "appending"
    /\ Len(blob) = SizeOfHeader + 2 * SizeOfCommand
    /\ Len(cmds) = 1 /\ cmds[1].kind = "DrawPolygon"
    /\ Views(heap, Decode(blob).items) = cmds

----------------------------------------------------------------------------
(* Claims about update_entry and the iterator *)

\* the cells of entry j of a buffer
EntryCells(self, j) ==
    SubSeq(self, EntryOffset(j) + 1, EntryOffset(j) + SizeOfCommand)

\* C31: replace_at.  For a buffer of n commands and an index i < n,
\* update_entry(i, c) does not panic and leaves a buffer that decodes to
\* the sequence it decoded to before with position i replaced by c; the
\* header count, the length of the buffer and the cells of every other
\* entry are as they were, also when c is a DrawPolygon whose point count
\* differs from that of the entry it replaces.
C31_ReplaceAt ==
    (replaced # <<>> /\ replaced[1].index < HeaderFromBytes(replaced[1].self).length) =>
        LET r == replaced[1]
            n == HeaderFromBytes(r.self).length
            after == Decode(blob)
        IN /\ ~r.panicked
           /\ ~after.panic
           /\ HeaderFromBytes(blob).length = n
           /\ Len(blob) = Len(r.self)
           /\ Views(heap, after.items) =
                 [Views(heap, Decode(r.self).items) EXCEPT ![r.index + 1] = r.c]
           /\ \A j \in 0..(n - 1) :
                 j # r.index => EntryCells(blob, j) = EntryCells(r.self, j)

\* C31 witness: in a buffer of two commands the first, a three-point
\* DrawPolygon, was replaced by a one-point DrawPolygon; the second is a
\* FillRect.
C31_Witness ==
    /\ replaced # <<>>
    /\ replaced[1].index = 0
    /\ HeaderFromBytes(replaced[1].self).length = 2
    /\ Len(Views(heap, Decode(replaced[1].self).items)[1].points) = 3
    /\ replaced[1].c.kind = "DrawPolygon"
    /\ Len(replaced[1].c.points) = 1
    /\ Views(heap, Decode(blob).items)[2].kind = "FillRect"

\* the iterator of reader r, if it has one
ReaderOf(r) == readers[r][1]

\* C32: decode is finite, restartable and independent.  Over a buffer
\* with header count n built by new_entry, lying in a slice that may be
\* longer, every iterator yields a prefix of the n commands whatever the
\* other iterator does, has yielded exactly the n commands when next()
\* returns None, returns None again when it is called again, and a fresh
\* iterator over the same bytes yields the same commands again; the
\* iterators read the bytes the producer took and no call changes them or
\* frees a point list.
C32_DecodeRestartable ==
    /\ heap = ProducerHeap
    /\ \A r \in Readers :
          readers[r] # <<>> =>
              /\ ~ReaderOf(r).panicked
              /\ ReaderOf(r).it.data = blob
              /\ Len(ReaderOf(r).yielded) <= HeaderFromBytes(blob).length
              /\ Views(heap, ReaderOf(r).yielded) =
                    SubSeq(cmds, 1, Len(ReaderOf(r).yielded))
              /\ ReaderOf(r).ended > 0 =>
                    Len(ReaderOf(r).yielded) = HeaderFromBytes(blob).length
              /\ ReaderOf(r).first # <<>> =>
                    Views(heap, ReaderOf(r).first[1]) = cmds

\* C32 witness: over a two-command buffer that holds a polygon, one reader
\* has run its second iterator to the end and was told twice that it has
\* ended, while the other reader is halfway through its first.
C32_Witness ==
    /\ Len(cmds) = 2
    /\ \E i \in 1..2 : cmds[i].kind = "DrawPolygon"
    /\ readers["r1"] # <<>>
    /\ ReaderOf("r1").first # <<>>
    /\ ReaderOf("r1").ended = 2
    /\ Len(ReaderOf("r1").yielded) = 2
    /\ readers["r2"] # <<>>
    /\ Len(ReaderOf("r2").yielded) = 1
    /\ ReaderOf("r2").ended = 0

----------------------------------------------------------------------------
(* Claims about the rasterize call, checked under SpecRaster *)

\* C33: rasterization is read-only on the registry.  While a batch is
\* rasterized and after it, in either mode and whether its requests
\* succeed or panic, the map has the ids it had and every entry has the
\* buffer, the visible rect and the tiling hint it had, and the point
\* lists the buffers refer to are as they were.
C33_RasterizeReadsOnly ==
    /\ blob_commands = committed
    /\ heap = ProducerHeap

\* C33 witness: a batch rasterized on the pool has ended with a panic
\* after one of its requests was painted from an entry of the map.
C33_Witness ==
    /\ call = "none"
    /\ outcomes # <<>>
    /\ outcomes[Len(outcomes)].kind = "panicked"
    /\ outcomes[Len(outcomes)].multithreading
    /\ \E i \in DOMAIN slots :
          /\ slots[i].state = "done"
          /\ slots[i].result[1].painted # <<>>
    /\ \E i \in DOMAIN slots : slots[i].state = "panicked"

----------------------------------------------------------------------------
(* Claims about the debug output, checked under SpecPaint *)

\* the pixels the calls of process_blob have painted
PaintedPixels == UNION {drawn[i].pixels : i \in DOMAIN drawn}

\* C34: diagnostic noninterference.  The result of a request is a function
\* of the request and of what was painted: its identity is the
\* request's, its rect is the one computed from the request, its pixels
\* are the ones process_blob painted, whether the debug block is compiled
\* in, whether SERVO_BLOB_OUTPUT_DIR is set, and whether the file was
\* written; a request that panics has panicked before the debug block.
C34_DiagnosticNoninterference ==
    /\ (result # <<>> /\ result[1].kind = "ok") =>
          /\ diagnostic # <<>>
          /\ result[1].request = request[1].request
          /\ result[1].rasterized_rect =
                RasterizedRect(request[1].rect, request[1].dirty_rect)
          /\ result[1].pixels = PaintedPixels
    /\ (result # <<>> /\ result[1].kind = "panicked") => diagnostic = <<>>

\* C34 witness: the output directory was set, the file could not be
\* written, and the request returned a tile with painted pixels.
C34_Witness ==
    /\ result # <<>>
    /\ result[1].kind = "ok"
    /\ result[1].pixels # {}
    /\ diagnostic # <<>>
    /\ diagnostic[1].out
    /\ ~diagnostic[1].written

----------------------------------------------------------------------------
(* Claims about termination, checked under SpecLive *)

\* the rasterize call that ended last has returned its results
Returned ==
    /\ call = "none"
    /\ outcomes # <<>>
    /\ outcomes[Len(outcomes)].kind = "returned"

\* a rasterize call that has begun ends, with results or with a panic
CallEnds == (call = "running") ~> (call = "none")

\* the guard of the registry is dropped by whoever took it
LockReleased == (lock # <<>>) ~> (lock = <<>>)

\* C35: run to completion.  Every rasterize call on a finite batch
\* eventually returns its results, sequentially and on the pool, whatever
\* add / update / delete calls a handler clone makes meanwhile, and the
\* registry lock is always eventually released.
C35_RunToCompletion ==
    /\ (call = "running") ~> Returned
    /\ LockReleased

----------------------------------------------------------------------------
(* Claims about the retention test of update, checked under SpecWide *)

\* the entry the last call found, and the entry it left
EntryBefore == last.before[last.key][1]
EntryAfter == blob_commands[last.key][1]

\* the last call was an update of an id that was in the map
Updated == last.op = "update" /\ last.before[last.key] # <<>>

\* the entry holds every command of the buffer that update was handed
RetainedAll ==
    /\ ~last.panicked
    /\ blob_commands[last.key] # <<>>
    /\ ~Decode(EntryAfter.data).panic
    /\ Decode(EntryAfter.data).items = Decode(last.data).items
    /\ Decode(last.data).items # <<>>

\* C36: update with dirty = All retains every command of the new buffer,
\* whatever the old and the new visible rect are, up to the ends of the
\* i32 range.
C36_DirtyAllRetainsAll ==
    (Updated /\ last.dirty_rect.kind = "All") => RetainedAll

\* C36 witness: the old and the new visible rect both span the whole i32
\* range, dirty was All, and both commands of the new buffer were kept.
C36_Witness ==
    /\ Updated
    /\ last.dirty_rect.kind = "All"
    /\ EntryBefore.visible_rect = Box2D(I32Min, I32Min, I32Max, I32Max)
    /\ last.visible_rect = Box2D(I32Min, I32Min, I32Max, I32Max)
    /\ Len(Decode(EntryAfter.data).items) = 2

\* two rects overlap: they have a point of their interiors in common
Overlap(r1, r2) ==
    /\ r1.min[1] < r2.max[1] /\ r2.min[1] < r1.max[1]
    /\ r1.min[2] < r2.max[2] /\ r2.min[2] < r1.max[2]

\* two rects lie apart: there is a gap between them on some axis
Apart(r1, r2) ==
    \/ r1.max[1] < r2.min[1] \/ r2.max[1] < r1.min[1]
    \/ r1.max[2] < r2.min[2] \/ r2.max[2] < r1.min[2]

\* the preserved rect of the last update
PreservedRect ==
    intersection_unchecked(EntryBefore.visible_rect, last.visible_rect)

----------------------------------------------------------------------------
(* Claims about an update that retains nothing, checked under SpecEmptied *)

\* the last call was an update of an id that was in the map, and its
\* retention test failed
RetentionFailed ==
    /\ Updated
    /\ ~contains_box(DirtyToRect(last.dirty_rect), PreservedRect)

\* rasterize_blob has ended for a request on the id that was updated, in
\* RGBA8 and for a rect that has pixels
RasterizedUpdated ==
    /\ result # <<>>
    /\ TheRequest.request.key = last.key
    /\ TheRequest.format = "RGBA8"
    /\ PixmapNew(width(TheRequest.rect), height(TheRequest.rect)) # <<>>

\* C38: an update whose retention test fails does not remove the entry.
\* The id stays in the map with a buffer that is a header of count 0 and
\* nothing else, with the new visible rect and the tiling hint it had,
\* and a request for that id made afterwards returns a tile without a
\* painted pixel, not a panic.
C38_FailedRetentionLeavesEmptyEntry ==
    RetentionFailed =>
        /\ ~last.panicked
        /\ blob_commands[last.key] # <<>>
        /\ Len(EntryAfter.data) = SizeOfHeader
        /\ HeaderFromBytes(EntryAfter.data).length = 0
        /\ ~Decode(EntryAfter.data).panic
        /\ EntryAfter.visible_rect = last.visible_rect
        /\ EntryAfter.tile_size = EntryBefore.tile_size
        /\ RasterizedUpdated =>
              /\ result[1].kind = "ok"
              /\ result[1].request = TheRequest.request
              /\ result[1].pixels = {}
              /\ drawn = <<>>

\* C38 witness: a two-command buffer was handed to an update whose
\* retention test failed, and a request for the id has returned a tile.
C38_Witness ==
    /\ RetentionFailed
    /\ Len(Decode(last.data).items) = 2
    /\ Decode(EntryBefore.data).items # <<>>
    /\ RasterizedUpdated
    /\ result[1].kind = "ok"

\* the entry that the last call found, and the entry it left
OwnedBefore == last.before[last.key][1]
OwnedAfter == blob_commands[last.key][1]

\* the last call was an update that found its entry and stored a buffer
OwnedUpdated ==
    /\ last.op = "update"
    /\ ~last.panicked
    /\ last.before[last.key] # <<>>

\* every Arc the producer kept is alive, has the bytes it had when it was
\* handed over, and decodes to the same commands with the same points
HeldIntact ==
    \A h \in held :
        /\ buffers[h.ptr].strong >= 1
        /\ buffers[h.ptr].bytes = h.bytes
        /\ Views(heap, Decode(buffers[h.ptr].bytes).items) =
              Views(ProducerHeap, Decode(h.bytes).items)

\* C39: update is copy-on-write.  Whatever calls are made, every buffer
\* the producer still holds (one it passed to update as well as one that
\* add had stored and update has since replaced) keeps the bytes and the
\* commands it had; and after an update that found its entry, the entry
\* points to an allocation made by that update, which nobody else owns and
\* which is neither the buffer passed in nor the buffer stored before.
C39_UpdateCopiesOnWrite ==
    /\ HeldIntact
    /\ OwnedUpdated =>
          /\ OwnedAfter.data > last.data
          /\ OwnedAfter.data # OwnedBefore.data
          /\ buffers[OwnedAfter.data].strong = 1
          /\ \A h \in held : h.ptr # OwnedAfter.data

\* an update has replaced a stored buffer of one command by different
\* bytes while the producer holds both the old buffer and the one it
\* passed in
C39_Witness ==
    /\ OwnedUpdated
    /\ \E old, new \in held :
          /\ old.ptr = OwnedBefore.data
          /\ new.ptr = last.data
          /\ Len(Decode(old.bytes).items) = 1
          /\ buffers[OwnedAfter.data].bytes # old.bytes
          /\ buffers[OwnedAfter.data].bytes # new.bytes


\* the rasterize call that ended last, and whether it ran on the pool
LastOutcome == outcomes[Len(outcomes)]

\* the results of an outcome carry the identities of the requests of the
\* batch, place by place
InInputOrder(o) ==
    /\ Len(o.results) = Len(requests)
    /\ \A i \in DOMAIN requests : o.results[i].request = requests[i].request

\* C40: result order in parallel mode.  Whenever rasterize returns, with
\* parallelism enabled as well as without it, the Vec it returns has one
\* result per request of the batch and the i-th result carries the
\* identity of the i-th request, in whatever order the threads of the pool
\* ended their requests.
C40_ResultsInInputOrder ==
    \A n \in DOMAIN outcomes :
        outcomes[n].kind = "returned" => InInputOrder(outcomes[n])

\* a rasterize call on the pool has just returned two results whose
\* requests ended in the reverse of their order in the batch
C40_Witness ==
    /\ call = "none"
    /\ outcomes # <<>>
    /\ LastOutcome.multithreading
    /\ LastOutcome.kind = "returned"
    /\ Len(LastOutcome.results) = 2
    /\ Len(slots) = 2
    /\ slots[2].ended = 1
    /\ slots[1].ended = 2
    /\ slots[1].by # slots[2].by


====
